---- MODULE Spec2Model ----
(***************************************************************************)
(* kubetap (cmd/kubectl-tap): the tap / untap state-transition engine.     *)
(*                                                                         *)
(* The cluster (one Service, the Deployments, the ConfigMaps) is the       *)
(* state; one action per command (tap on, tap off).  Every handler is a    *)
(* pure operator on a cluster record so that the rollback that tap runs    *)
(* (NewUntapCommand called from NewTapCommand) is the same definition as   *)
(* the untap command.  The API server stores what is written to it; a      *)
(* write may fail (conflict, or another error), chosen as an input.        *)
(***************************************************************************)
EXTENDS Integers, Sequences, FiniteSets, TLC

VARIABLES svc, dpls, cms, last, rt, nops, ia, others, race

vars == <<svc, dpls, cms, last, rt, nops, ia, others, race>>

(***************************************************************************)
(* Bounds of the model.                                                    *)
(***************************************************************************)
\* commands run one after the other in one behaviour
MaxOps == 3
\* write calls that fail within one command (its rollback included)
MaxFaults == 2
\* interrupt or termination signals sent to one interactive tap
MaxSignals == 1

(***************************************************************************)
(* Program constants.                                                      *)
(***************************************************************************)
kubetapContainerName == "kubetap"
kubetapServicePortName == "kubetap-web"
kubetapPortName == "kubetap-listen"
kubetapWebPortName == "kubetap-web"
kubetapProxyListenPort == 7777
kubetapProxyWebInterfacePort == 2244
kubetapConfigMapPrefix == "kubetap-target-"
interactiveTimeoutSeconds == 90
configMapAnnotationPrefix == "target-"
protocolHTTP == "http"
protocolTCP == "tcp"
protocolUDP == "udp"
protocolGRPC == "grpc"
annotationOriginalTargetPort == "kubetap.io/original-port"
annotationConfigMap == "kubetap.io/proxy-config"
annotationIsTapped == "kubetap.io/tapped"
defaultImageHTTP == "gcr.io/soluble-oss/kubetap-mitmproxy:latest"
defaultImageRaw == "gcr.io/soluble-oss/kubetap-raw:latest"
defaultImageGRPC == "gcr.io/soluble-oss/kubetap-grpc:latest"
mitmproxyDataVolName == "kubetap-mitmproxy-data"
mitmproxyConfigFile == "config.yaml"
mitmproxyBaseConfig == "listen_port: 7777\nssl_insecure: true\nweb_port: 2244\nweb_host: 0.0.0.0\nweb_open_browser: false\n"
\* retry.DefaultRetry: the attempts of one RetryOnConflict loop
RetrySteps == 5

(***************************************************************************)
(* Errors.  An error value is the chain of its wrappings, outermost first; *)
(* fmt.Errorf("...: %w", err) puts its text in front.  The empty chain is  *)
(* nil.                                                                    *)
(***************************************************************************)
Nil == <<>>
ErrNamespaceNotExist == <<"ErrNamespaceNotExist">>
ErrServiceMissingPort == <<"ErrServiceMissingPort">>
ErrServiceTapped == <<"ErrServiceTapped">>
ErrServiceSelectorNoMatch == <<"ErrServiceSelectorNoMatch">>
ErrServiceSelectorMultiMatch == <<"ErrServiceSelectorMultiMatch">>
ErrSelectorsMissing == <<"ErrSelectorsMissing">>
ErrConfigMapNoMatch == <<"ErrConfigMapNoMatch">>
ErrCreateResourceMismatch == <<"ErrCreateResourceMismatch">>
ErrDeploymentMissingPorts == <<"ErrDeploymentMissingPorts">>
ErrKubetapPodNoMatch == <<"ErrKubetapPodNoMatch">>
ErrInvalid == <<"os.ErrInvalid">>
\* errors of the API server
ErrConflict == <<"StatusReasonConflict">>
ErrAlreadyExists == <<"StatusReasonAlreadyExists">>
ErrNotFound == <<"StatusReasonNotFound">>
ErrAPI == <<"StatusReasonInternalError">>

Wrap(text, err) == <<text>> \o err

\* errors.Is(err, target): some error of err's chain is target
ErrorsIs(err, target) ==
    \E i \in 1..Len(err) : SubSeq(err, i, Len(err)) = target

IsConflict(err) == ErrorsIs(err, ErrConflict)

(***************************************************************************)
(* Go maps (annotations, labels, selectors, BinaryData).                   *)
(***************************************************************************)
\* a local variable: v is evaluated once and named in F
With(v, F(_)) == CHOOSE r \in {F(x) : x \in {v}} : TRUE

EmptyMap == [k \in {} |-> ""]

\* m[k] of a Go map: the zero value when k is absent
MapGet(m, k) == IF k \in DOMAIN m THEN m[k] ELSE ""

MapPut(m, k, v) == [j \in DOMAIN m \cup {k} |-> IF j = k THEN v ELSE m[j]]

MapDelete(m, k) == [j \in DOMAIN m \ {k} |-> m[j]]

(***************************************************************************)
(* strconv and intstr.  Itoa is tabulated over the port numbers the model  *)
(* uses; Atoi is its inverse and fails on every other string.              *)
(***************************************************************************)
ItoaTable ==
    (0 :> "0") @@ (80 :> "80") @@ (8080 :> "8080") @@ (9000 :> "9000") @@
    (9090 :> "9090") @@ (9999 :> "9999") @@ (2244 :> "2244") @@ (7777 :> "7777")

Itoa(n) == ItoaTable[n]

Atoi(s) ==
    IF \E n \in DOMAIN ItoaTable : ItoaTable[n] = s
    THEN [ok |-> TRUE, val |-> CHOOSE n \in DOMAIN ItoaTable : ItoaTable[n] = s]
    ELSE [ok |-> FALSE, val |-> 0]

FromInt(n) == [type |-> "Int", intVal |-> n, strVal |-> ""]

FromString(s) == [type |-> "String", intVal |-> 0, strVal |-> s]

\* IntOrString.String()
IntstrString(t) == IF t.type = "Int" THEN Itoa(t.intVal) ELSE t.strVal

\* intstr.Parse: a number when the string is one, a name otherwise
IntstrParse(s) == IF Atoi(s).ok THEN FromInt(Atoi(s).val) ELSE FromString(s)

\* IntOrString.IntValue(): a name is converted, 0 when it is no number
IntValue(t) == IF t.type = "Int" THEN t.intVal ELSE Atoi(t.strVal).val

HasPrefix(s, p) == Len(s) >= Len(p) /\ SubSeq(s, 1, Len(p)) = p

(***************************************************************************)
(* The objects of the cluster.                                             *)
(***************************************************************************)
ServicePort(name, port, target) ==
    [name |-> name, port |-> port, targetPort |-> target]

ContainerPort(name, port) == [name |-> name, containerPort |-> port]

Container(name, image, ports, mounts) ==
    [name |-> name, image |-> image, ports |-> ports, volumeMounts |-> mounts]

Volume(name, kind, ref) == [name |-> name, kind |-> kind, ref |-> ref]

\* labels are the labels of the Deployment object, tmplLabels those of
\* its pod template
Deployment(name, ns, labels, containers) ==
    [name |-> name, namespace |-> ns, labels |-> labels, tmplLabels |-> labels,
     containers |-> containers, volumes |-> <<>>, tmplAnns |-> EmptyMap]

ConfigMap(name, ns, anns, data) ==
    [name |-> name, namespace |-> ns, anns |-> anns, data |-> data]

Cluster(s, d, c) == [svc |-> s, dpls |-> d, cms |-> c]

(***************************************************************************)
(* The API server, as the handlers use it.  A read returns what is stored; *)
(* a write stores the object it is given unless the call fails.            *)
(***************************************************************************)
\* the Namespaces of the cluster
Namespaces == {"default", "foo"}

\* the attempts of a retry loop just before whose Update another client
\* writes the object: every attempt, or the first one only
ConcurrentWrites(fk) ==
    IF fk = "conflict" THEN 1..RetrySteps
    ELSE IF fk = "conflict1" THEN {1}
    ELSE {}

\* the error of the Update of attempt i of a retry loop.  The server
\* refuses with a conflict an object whose resourceVersion is older than
\* the stored one: the object of an attempt that gets it again is as old
\* as this attempt, the object of a loop that got it once, before the
\* loop, is older than every write since.  A fault that is no conflict
\* is another API error.
UpdateErr(failing, fk, i, rereads) ==
    IF ~failing THEN Nil
    ELSE IF fk = "error" THEN ErrAPI
    ELSE IF \E j \in ConcurrentWrites(fk) : IF rereads THEN j = i ELSE j <= i
    THEN ErrConflict
    ELSE Nil

WriteErr(failing) == IF failing THEN ErrAPI ELSE Nil

IndexOf(seq, name, ns) ==
    {i \in 1..Len(seq) : seq[i].name = name /\ seq[i].namespace = ns}

Min(S) == CHOOSE x \in S : \A y \in S : x <= y

Max(S) == CHOOSE x \in S : \A y \in S : x >= y

Repeat(seq, n) == [i \in 1..(n * Len(seq)) |-> seq[((i - 1) % Len(seq)) + 1]]

\* Deployments(ns).List with a label selector: every requirement must hold
ListDeployments(c, ns, reqs) ==
    SelectSeq(c.dpls, LAMBDA d :
        /\ d.namespace = ns
        /\ \A r \in reqs : r[1] \in DOMAIN d.labels /\ d.labels[r[1]] = r[2])

\* Deployments(ns).Update: the stored object of that name is replaced
UpdateDeployment(c, d) ==
    [c EXCEPT !.dpls = [i \in 1..Len(c.dpls) |->
        IF c.dpls[i].name = d.name /\ c.dpls[i].namespace = d.namespace
        THEN d ELSE c.dpls[i]]]

\* ConfigMaps(ns).Create: fails when the name is taken
CreateConfigMap(c, cm, failing) ==
    IF failing THEN [c |-> c, err |-> ErrAPI]
    ELSE IF IndexOf(c.cms, cm.name, cm.namespace) # {}
    THEN [c |-> c, err |-> ErrAlreadyExists]
    ELSE [c |-> [c EXCEPT !.cms = Append(@, cm)], err |-> Nil]

\* ConfigMaps(ns).Delete
DeleteConfigMap(c, name, ns, failing) ==
    IF failing THEN [c |-> c, err |-> ErrAPI]
    ELSE IF IndexOf(c.cms, name, ns) = {} THEN [c |-> c, err |-> ErrNotFound]
    ELSE [c |-> [c EXCEPT !.cms = SelectSeq(@, LAMBDA m :
                    ~(m.name = name /\ m.namespace = ns))],
          err |-> Nil]

\* a loop that retries after every error
RetryOnAnyError(errs) ==
    LET stop == {i \in 1..RetrySteps : errs[i] = Nil}
        n == IF stop = {} THEN RetrySteps ELSE Min(stop)
    IN  [attempts |-> n, err |-> errs[n]]

\* retry.RetryOnConflict(retry.DefaultRetry, fn), given the error each
\* attempt returns: the first attempt that does not end in a conflict
\* decides; after RetrySteps conflicts the last conflict is returned
RetryOnConflict(errs) ==
    LET stop == {i \in 1..RetrySteps : ~IsConflict(errs[i])}
        n == IF stop = {} THEN RetrySteps ELSE Min(stop)
    IN  [attempts |-> n, err |-> errs[n]]

(***************************************************************************)
(* hasNamespace, deploymentFromSelectors.                                  *)
(***************************************************************************)
\* a check that takes every Namespace to exist
hasNamespaceAlways(namespace) ==
    [exists |-> TRUE, err |-> Nil, calls |-> <<"ns.list">>]

hasNamespace(namespace) ==
    IF namespace = "" THEN [exists |-> FALSE, err |-> ErrInvalid, calls |-> <<>>]
    ELSE [exists |-> namespace \in Namespaces, err |-> Nil, calls |-> <<"ns.list">>]

\* a query that drops the requirements
SelectorQueryEmpty(selectors) == {}

\* the label query "k1=v1,k2=v2": the set of its requirements (the order
\* of a Go map's keys is not fixed, and the server takes the conjunction)
SelectorQuery(selectors) == {<<k, selectors[k]>> : k \in DOMAIN selectors}

NoDeployment == Deployment("", "", EmptyMap, <<>>)

\* a locator that settles for the first Deployment of the namespace when
\* the selectors name none or several
deploymentFromSelectorsFirst(c, ns, selectors) ==
    LET items == SelectSeq(c.dpls, LAMBDA d : d.namespace = ns)
    IN  IF Len(items) = 0
        THEN [dpl |-> NoDeployment, err |-> ErrServiceSelectorNoMatch,
              calls |-> <<"dpl.list">>]
        ELSE [dpl |-> items[1], err |-> Nil, calls |-> <<"dpl.list">>]

deploymentFromSelectors(c, ns, selectors) ==
    IF DOMAIN selectors = {}
    THEN [dpl |-> NoDeployment, err |-> ErrSelectorsMissing, calls |-> <<>>]
    ELSE LET items == ListDeployments(c, ns, SelectorQuery(selectors))
         IN  IF Len(items) = 0
             THEN [dpl |-> NoDeployment, err |-> ErrServiceSelectorNoMatch,
                   calls |-> <<"dpl.list">>]
             ELSE IF Len(items) = 1
             THEN [dpl |-> items[1], err |-> Nil, calls |-> <<"dpl.list">>]
             ELSE [dpl |-> NoDeployment, err |-> ErrServiceSelectorMultiMatch,
                   calls |-> <<"dpl.list">>]

(***************************************************************************)
(* mitmproxy.go: the ConfigMap of a target.                                *)
(***************************************************************************)
ProxyOptions(target, https, upstream, ns, dplName) ==
    [Target |-> target, UpstreamHTTPS |-> https, UpstreamPort |-> upstream,
     Mode |-> "reverse", Namespace |-> ns, dplName |-> dplName]

createMitmproxyConfigMap(c, proxyOpts, failing) ==
    IF proxyOpts.Mode # "reverse"
    THEN [c |-> c, calls |-> <<>>,
          err |-> <<"mitmproxy container only supports \"reverse\" mode">>]
    ELSE
    LET mitmproxyConfig ==
            IF proxyOpts.UpstreamHTTPS
            THEN mitmproxyBaseConfig \o "mode: reverse:https://127.0.0.1:"
                     \o proxyOpts.UpstreamPort
            ELSE mitmproxyBaseConfig \o "mode: reverse:http://127.0.0.1:"
                     \o proxyOpts.UpstreamPort
        cm == ConfigMap(kubetapConfigMapPrefix \o proxyOpts.dplName,
                        proxyOpts.Namespace,
                        (annotationConfigMap :>
                            (configMapAnnotationPrefix \o proxyOpts.dplName)),
                        (mitmproxyConfigFile :> mitmproxyConfig))
    IN  IF Len(mitmproxyConfig) = 0
        THEN [c |-> c, err |-> ErrInvalid, calls |-> <<>>]
        \* the server returns what it stored: data and length agree
        ELSE With(CreateConfigMap(c, cm, failing), LAMBDA cr :
                 [c |-> cr.c, err |-> cr.err, calls |-> <<"cm.create">>])

\* a destruction that takes the first ConfigMap of the namespace, whatever
\* its annotations
destroyAnyConfigMap(c, ns, deploymentName, failing) ==
    With(SelectSeq(c.cms, LAMBDA m : m.namespace = ns), LAMBDA found :
        IF Len(found) = 0
        THEN [c |-> c, err |-> ErrConfigMapNoMatch, calls |-> <<"cm.list">>]
        ELSE With(DeleteConfigMap(c, found[1].name, ns, failing), LAMBDA del :
                 [c |-> del.c, err |-> del.err,
                  calls |-> <<"cm.list", "cm.delete">>]))

destroyMitmproxyConfigMap(c, ns, deploymentName, failing) ==
    IF deploymentName = "" THEN [c |-> c, err |-> ErrInvalid, calls |-> <<>>]
    ELSE
    With(SelectSeq(c.cms, LAMBDA m :
            /\ m.namespace = ns
            /\ annotationConfigMap \in DOMAIN m.anns
            /\ m.anns[annotationConfigMap]
                   = configMapAnnotationPrefix \o deploymentName),
         LAMBDA targetConfigMapNames :
        IF Len(targetConfigMapNames) = 0
        THEN [c |-> c, err |-> ErrConfigMapNoMatch, calls |-> <<"cm.list">>]
        ELSE With(DeleteConfigMap(c, targetConfigMapNames[1].name, ns, failing),
                  LAMBDA del :
                 [c |-> del.c, err |-> del.err,
                  calls |-> <<"cm.list", "cm.delete">>]))

\* a ReadyEnv that gives up at the first failure
ReadyEnvNoRetry(c, proxyOpts, flt) ==
    createMitmproxyConfigMap(c, proxyOpts, "cm.create" \in flt)

\* a preparation that marks the pod template of the target as tapped
\* before it creates the ConfigMap
ReadyEnvMarksDeployment(c, proxyOpts, flt) ==
    With([c EXCEPT !.dpls = [i \in 1..Len(c.dpls) |->
              IF c.dpls[i].name = proxyOpts.dplName
              THEN [c.dpls[i] EXCEPT
                      !.tmplAnns = MapPut(@, annotationIsTapped, proxyOpts.dplName)]
              ELSE c.dpls[i]]],
         LAMBDA marked :
            createMitmproxyConfigMap(marked, proxyOpts, "cm.create" \in flt))

\* Mitmproxy.ReadyEnv: create, and on any failure destroy and create again
ReadyEnv(c, proxyOpts, flt) ==
    With(createMitmproxyConfigMap(c, proxyOpts, "cm.create" \in flt), LAMBDA first :
    IF first.err = Nil THEN first
    ELSE
    With(destroyMitmproxyConfigMap(first.c, proxyOpts.Namespace,
                                   proxyOpts.dplName, "cm.delete" \in flt),
         LAMBDA des :
    With(createMitmproxyConfigMap(des.c, proxyOpts, "cm.create" \in flt),
         LAMBDA again :
    LET calls == first.calls \o des.calls \o again.calls
    IN  IF again.err = Nil
        THEN [c |-> again.c, err |-> Nil, calls |-> calls]
        ELSE IF ErrorsIs(ErrInvalid, again.err)
        THEN [c |-> again.c, calls |-> calls,
              err |-> <<"there was an unexpected problem creating the ConfigMap">>]
        ELSE [c |-> again.c, err |-> again.err, calls |-> calls])))

\* Mitmproxy.UnreadyEnv
UnreadyEnv(c, ns, dplName, failing) ==
    destroyMitmproxyConfigMap(c, ns, dplName, failing)

(***************************************************************************)
(* mitmproxy.go: the sidecar.                                              *)
(***************************************************************************)
\* a sidecar that exposes the listen port only
MitmproxySidecarOnePort ==
    Container(kubetapContainerName, "",
              <<ContainerPort(kubetapPortName, kubetapProxyListenPort)>>,
              <<"", mitmproxyDataVolName>>)

MitmproxySidecarContainer ==
    Container(kubetapContainerName, "",
              <<ContainerPort(kubetapPortName, kubetapProxyListenPort),
                ContainerPort(kubetapWebPortName, kubetapProxyWebInterfacePort)>>,
              <<"", mitmproxyDataVolName>>)

\* Mitmproxy.Sidecar
Sidecar(deploymentName) ==
    [MitmproxySidecarContainer EXCEPT
        !.volumeMounts[1] = kubetapConfigMapPrefix \o deploymentName]

\* Mitmproxy.PatchDeployment
PatchDeployment(d) ==
    [d EXCEPT !.volumes =
        Append(Append(@, Volume(kubetapConfigMapPrefix \o d.name, "ConfigMap",
                                kubetapConfigMapPrefix \o d.name)),
               Volume(mitmproxyDataVolName, "EmptyDir", ""))]

(***************************************************************************)
(* tap.go: the Service port swap.                                          *)
(***************************************************************************)
\* Services(ns).Get
GetService(c, ns, name) ==
    IF c.svc.namespace = ns /\ c.svc.name = name
    THEN [obj |-> c.svc, err |-> Nil]
    ELSE [obj |-> c.svc, err |-> ErrNotFound]

\* a closure that stores the annotation and leaves the port list as it is
tapSvcClosureAnnotates(s, targetPort) ==
    LET hits == {i \in 1..Len(s.ports) : s.ports[i].port = targetPort}
    IN  IF MapGet(s.anns, annotationOriginalTargetPort) # ""
        THEN [obj |-> s, err |-> ErrServiceTapped]
        ELSE IF hits = {} THEN [obj |-> s, err |-> ErrServiceMissingPort]
        ELSE [obj |-> [s EXCEPT
                        !.anns = MapPut(@, annotationOriginalTargetPort,
                                    IntstrString(s.ports[Max(hits)].targetPort))],
              err |-> Nil]

\* a closure that starts from an empty annotation map and redirects every
\* entry
tapSvcClosureWipes(s, targetPort) ==
    LET hits == {i \in 1..Len(s.ports) : s.ports[i].port = targetPort}
    IN  IF MapGet(s.anns, annotationOriginalTargetPort) # ""
        THEN [obj |-> s, err |-> ErrServiceTapped]
        ELSE IF hits = {} THEN [obj |-> s, err |-> ErrServiceMissingPort]
        ELSE [obj |-> [s EXCEPT
                        !.anns = MapPut(EmptyMap, annotationOriginalTargetPort,
                                    IntstrString(s.ports[Max(hits)].targetPort)),
                        !.ports = Append(
                            [i \in 1..Len(s.ports) |->
                                [s.ports[i] EXCEPT
                                    !.targetPort = FromInt(kubetapProxyListenPort)]],
                            ServicePort(kubetapServicePortName,
                                        kubetapProxyWebInterfacePort,
                                        FromInt(kubetapProxyWebInterfacePort)))],
              err |-> Nil]

\* the closure of tapSvc up to its Update: the object to write, or an error
tapSvcClosure(s, targetPort) ==
    LET anns == s.anns
        hits == {i \in 1..Len(s.ports) : s.ports[i].port = targetPort}
    IN  IF MapGet(anns, annotationOriginalTargetPort) # ""
        THEN [obj |-> s, err |-> ErrServiceTapped]
        ELSE IF hits = {} THEN [obj |-> s, err |-> ErrServiceMissingPort]
        ELSE
        LET targetSvcPort == s.ports[Max(hits)]
            proxySvcPort == ServicePort(kubetapServicePortName,
                                kubetapProxyWebInterfacePort,
                                FromInt(kubetapProxyWebInterfacePort))
            appended == Append(s.ports, proxySvcPort)
            servicePorts == [i \in 1..Len(appended) |->
                IF appended[i].port = targetSvcPort.port
                THEN [appended[i] EXCEPT
                        !.name = IF @ = "" THEN kubetapPortName ELSE @,
                        !.targetPort = FromInt(kubetapProxyListenPort)]
                ELSE appended[i]]
        IN  [obj |-> [s EXCEPT
                        !.anns = MapPut(anns, annotationOriginalTargetPort,
                                        IntstrString(targetSvcPort.targetPort)),
                        !.ports = servicePorts],
             err |-> Nil]

\* the closure of untapSvc up to its Update
untapSvcClosure(s) ==
    LET origSvcTargetPort ==
            IntstrParse(MapGet(s.anns, annotationOriginalTargetPort))
        kept == SelectSeq(s.ports, LAMBDA sp : sp.name # kubetapServicePortName)
        servicePorts == [i \in 1..Len(kept) |->
            IF IntValue(kept[i].targetPort) = kubetapProxyListenPort
            THEN [kept[i] EXCEPT
                    !.name = IF @ = kubetapPortName THEN "" ELSE @,
                    !.targetPort = origSvcTargetPort]
            ELSE kept[i]]
    IN  [s EXCEPT !.ports = servicePorts,
                  !.anns = MapDelete(s.anns, annotationOriginalTargetPort)]

\* tapSvc: every attempt gets the Service, applies the closure and updates
tapSvc(c, ns, svcName, targetPort, failing, fk) ==
    With(GetService(c, ns, svcName), LAMBDA get :
    With(tapSvcClosure(get.obj, targetPort), LAMBDA cl :
    LET attempt(i) == IF get.err # Nil THEN get.err
                      ELSE IF cl.err # Nil THEN cl.err
                      ELSE UpdateErr(failing, fk, i, TRUE)
        calls == IF get.err # Nil \/ cl.err # Nil THEN <<"svc.get">>
                 ELSE <<"svc.get", "svc.update">>
    IN  With(RetryOnConflict([i \in 1..RetrySteps |-> attempt(i)]), LAMBDA r :
        IF r.err # Nil
        THEN [c |-> c, err |-> Wrap("failed to tap Service", r.err),
              calls |-> Repeat(calls, r.attempts)]
        ELSE [c |-> [c EXCEPT !.svc = cl.obj], err |-> Nil,
              calls |-> Repeat(calls, r.attempts)])))

\* untapSvc
untapSvc(c, ns, svcName, failing, fk) ==
    With(GetService(c, ns, svcName), LAMBDA get :
    LET attempt(i) == IF get.err # Nil THEN get.err
                      ELSE UpdateErr(failing, fk, i, TRUE)
        calls == IF get.err # Nil THEN <<"svc.get">>
                 ELSE <<"svc.get", "svc.update">>
    IN  With(RetryOnConflict([i \in 1..RetrySteps |-> attempt(i)]), LAMBDA r :
        IF r.err # Nil
        THEN [c |-> c, err |-> Wrap("failed to untap Service", r.err),
              calls |-> Repeat(calls, r.attempts)]
        ELSE [c |-> [c EXCEPT !.svc = untapSvcClosure(get.obj)], err |-> Nil,
              calls |-> Repeat(calls, r.attempts)]))

(***************************************************************************)
(* tap.go: NewListCommand.                                                 *)
(***************************************************************************)
\* Services(ns).List: the Services of the namespace, of every namespace
\* when ns is empty
ListServices(c, rest, ns) ==
    SelectSeq(<<c.svc>> \o rest, LAMBDA s : ns = "" \/ s.namespace = ns)

NewListCommand(c, rest, namespace) ==
    LET has == hasNamespace(namespace)
        \* the one case where an empty namespace is allowed
        exists == IF has.err # Nil THEN TRUE ELSE has.exists
        services == ListServices(c, rest, namespace)
        tappedServices ==
            {<<services[i].name, services[i].namespace>> :
                i \in {j \in 1..Len(services) :
                    MapGet(services[j].anns, annotationOriginalTargetPort) # ""}}
    IN  IF has.err # Nil /\ ~ErrorsIs(has.err, ErrInvalid)
        THEN [err |-> Wrap("error fetching namespaces", has.err),
              calls |-> has.calls, out |-> {}]
        ELSE IF ~exists
        THEN [err |-> ErrNamespaceNotExist, calls |-> has.calls, out |-> {}]
        ELSE [err |-> Nil, calls |-> has.calls \o <<"svc.list">>,
              out |-> tappedServices]

(***************************************************************************)
(* tap.go: NewUntapCommand.  pfx names the fault points of this run: ""    *)
(* for the command, "rb." when tap runs it as its rollback.                *)
(***************************************************************************)
\* a closure that takes the volumes and the annotation away and leaves the
\* containers
untapDeploymentClosureKeepsSidecar(deployment) ==
    [deployment EXCEPT
        !.volumes = SelectSeq(@, LAMBDA v : ~HasPrefix(v.name, "kubetap")),
        !.tmplAnns = MapDelete(@, annotationIsTapped)]

\* the closure of untap's Deployment update, applied to the fetched object
untapDeploymentClosure(deployment) ==
    [deployment EXCEPT
        !.containers = SelectSeq(@, LAMBDA k : k.name # kubetapContainerName),
        !.volumes = SelectSeq(@, LAMBDA v : ~HasPrefix(v.name, "kubetap")),
        !.tmplAnns = MapDelete(@, annotationIsTapped)]

untapDeployment(c, ns, dplName, failing, fk) ==
    With(IndexOf(c.dpls, dplName, ns), LAMBDA at :
    LET attempt(i) == IF at = {} THEN ErrNotFound
                      ELSE UpdateErr(failing, fk, i, TRUE)
        calls == IF at = {} THEN <<"dpl.get">> ELSE <<"dpl.get", "dpl.update">>
    IN  With(RetryOnConflict([i \in 1..RetrySteps |-> attempt(i)]), LAMBDA r :
        IF r.err # Nil
        THEN [c |-> c, err |-> r.err, calls |-> Repeat(calls, r.attempts)]
        ELSE [c |-> UpdateDeployment(c, untapDeploymentClosure(c.dpls[Min(at)])),
              err |-> Nil, calls |-> Repeat(calls, r.attempts)]))

\* an untap that tolerates no error of UnreadyEnv
isConfigMapNoMatchNever(err) == FALSE

\* errors.Is(ErrConfigMapNoMatch, err): the error UnreadyEnv may return
\* without ending the untap
isConfigMapNoMatch(err) == ErrorsIs(ErrConfigMapNoMatch, err)

NewUntapCommand(c, viperNamespace, targetSvcName, pfx, flt, fk) ==
    LET namespace == IF viperNamespace = "" THEN "default" ELSE viperNamespace
        has == hasNamespace(namespace)
        get == GetService(c, namespace, targetSvcName)
        c1 == has.calls \o <<"svc.get">>
    IN  IF has.err # Nil
        THEN [c |-> c, calls |-> has.calls,
              err |-> Wrap("error fetching namespaces", has.err)]
        ELSE IF ~has.exists
        THEN [c |-> c, err |-> ErrNamespaceNotExist, calls |-> has.calls]
        ELSE IF get.err # Nil THEN [c |-> c, err |-> get.err, calls |-> c1]
        ELSE
        With(deploymentFromSelectors(c, namespace, get.obj.selector), LAMBDA loc :
        IF loc.err # Nil
        THEN [c |-> c, err |-> loc.err, calls |-> c1 \o loc.calls]
        ELSE IF loc.dpl.namespace # namespace
        THEN [c |-> c, err |-> <<"panic: ErrDeploymentOutsideNamespace">>,
              calls |-> c1 \o loc.calls]
        ELSE
        With(UnreadyEnv(c, namespace, loc.dpl.name, (pfx \o "cm.delete") \in flt),
             LAMBDA un :
        IF un.err # Nil /\ ~isConfigMapNoMatch(un.err)
        THEN [c |-> un.c, err |-> un.err, calls |-> c1 \o loc.calls \o un.calls]
        ELSE
        With(untapDeployment(un.c, namespace, loc.dpl.name,
                             (pfx \o "dpl.update") \in flt, fk),
             LAMBDA du :
        IF du.err # Nil
        THEN [c |-> du.c, calls |-> c1 \o loc.calls \o un.calls \o du.calls,
              err |-> Wrap("failed to remove sidecars from Deployment", du.err)]
        ELSE
        With(untapSvc(du.c, namespace, targetSvcName,
                      (pfx \o "svc.update") \in flt, fk),
             LAMBDA su :
        [c |-> su.c, err |-> su.err,
         calls |-> c1 \o loc.calls \o un.calls \o du.calls \o su.calls]))))

(***************************************************************************)
(* tap.go: NewTapCommand.                                                  *)
(***************************************************************************)
\* a port resolution that sees no container port
ContainerPortsNone(containers) == <<>>

RECURSIVE ContainerPorts(_)
\* the ports of the containers of a pod template, in the order the loops
\* of the port resolution visit them
ContainerPorts(containers) ==
    IF containers = <<>> THEN <<>>
    ELSE Head(containers).ports \o ContainerPorts(Tail(containers))

RECURSIVE resolveUpstreamPort(_, _, _, _, _, _)
\* the loop over targetService.Spec.Ports that sets proxyOpts.UpstreamPort,
\* from entry i on; acc is [UpstreamPort, err, calls] so far
resolveUpstreamPort(c, namespace, targetService, targetSvcPort, i, acc) ==
    IF i > Len(targetService.ports) THEN acc
    ELSE IF targetService.ports[i].port # targetSvcPort
    THEN resolveUpstreamPort(c, namespace, targetService, targetSvcPort, i + 1, acc)
    ELSE IF targetService.ports[i].targetPort.type = "Int"
    THEN With([acc EXCEPT !.UpstreamPort =
                    IntstrString(targetService.ports[i].targetPort)],
              LAMBDA next :
             resolveUpstreamPort(c, namespace, targetService, targetSvcPort,
                                 i + 1, next))
    ELSE
    With(deploymentFromSelectors(c, namespace, targetService.selector), LAMBDA loc :
    IF loc.err # Nil
    THEN [UpstreamPort |-> acc.UpstreamPort, calls |-> acc.calls \o loc.calls,
          err |-> Wrap("error resolving Deployment from Service selectors while setting proxy ports", loc.err)]
    ELSE
    With(SelectSeq(ContainerPorts(loc.dpl.containers), LAMBDA p :
            p.name = IntstrString(targetService.ports[i].targetPort)),
         LAMBDA named :
    With(IF Len(named) > 0 THEN Itoa(named[Len(named)].containerPort)
         ELSE acc.UpstreamPort,
         LAMBDA up :
    IF up = ""
    THEN [UpstreamPort |-> "", calls |-> acc.calls \o loc.calls,
          err |-> ErrDeploymentMissingPorts]
    ELSE With([UpstreamPort |-> up, err |-> Nil, calls |-> acc.calls \o loc.calls],
              LAMBDA next :
             resolveUpstreamPort(c, namespace, targetService, targetSvcPort,
                                 i + 1, next)))))

\* the closure of tap's Deployment update, applied to dpl (fetched once,
\* before the loop)
tapDeploymentClosure(dpl, sidecar) ==
    LET patched == PatchDeployment([dpl EXCEPT !.containers = Append(@, sidecar)])
    IN  [patched EXCEPT !.tmplAnns = MapPut(@, annotationIsTapped, dpl.name)]

RECURSIVE tapDeploymentLocal(_, _, _)
\* dpl after n runs of the closure: the loop does not fetch it again
tapDeploymentLocal(dpl, sidecar, n) ==
    IF n = 0 THEN dpl
    ELSE With(tapDeploymentLocal(dpl, sidecar, n - 1), LAMBDA d :
             tapDeploymentClosure(d, sidecar))

\* a Deployment stage that reports success and writes nothing
tapDeploymentSkipped(c, dpl, sidecar, failing, fk) ==
    [c |-> c, err |-> Nil, calls |-> <<>>, sent |-> <<>>]

\* the RetryOnConflict loop of tap; the object keeps the version it was
\* listed with, so an attempt that conflicts conflicts again.  sent are
\* the objects handed to Update, one for each attempt.
tapDeployment(c, dpl, sidecar, failing, fk) ==
    With(RetryOnConflict([i \in 1..RetrySteps |->
                              UpdateErr(failing, fk, i, FALSE)]),
         LAMBDA r :
    With([k \in 1..r.attempts |-> tapDeploymentLocal(dpl, sidecar, k)],
         LAMBDA sent :
        IF r.err # Nil
        THEN [c |-> c, err |-> r.err,
              calls |-> Repeat(<<"dpl.update">>, r.attempts), sent |-> sent]
        ELSE [c |-> UpdateDeployment(c, sent[r.attempts]), err |-> Nil,
              calls |-> Repeat(<<"dpl.update">>, r.attempts), sent |-> sent]))

NoRollback == [ran |-> FALSE, err |-> Nil, calls |-> <<>>, steps |-> <<>>]

\* what a run of tap returns: the cluster it leaves, its error, its API
\* calls up to the rollback, the rollback it ran, the upstream port, and
\* steps, the cluster as each of its stages left it (ReadyEnv, the
\* Deployment loop, tapSvc)
TapReturn(c, err, calls, rb, up) ==
    [c |-> c, err |-> err, calls |-> calls, rb |-> rb, UpstreamPort |-> up,
     steps |-> <<>>, sent |-> <<>>]

Stepped(steps, ret) == [ret EXCEPT !.steps = steps]

\* the same return with the objects the Deployment loop handed to Update
Sent(objs, ret) == [ret EXCEPT !.sent = objs]

\* a tap that returns the error without the rollback
RollbackSkipped(c, namespace, targetSvcName, flt, fk) ==
    [c |-> c, rb |-> NoRollback]

\* the rollback of tap: _ = NewUntapCommand(client, viper)(cmd, args).
\* Its stages write one kind of object each, in the order ConfigMap,
\* Deployment, Service: steps are the clusters they leave.
Rollback(c, namespace, targetSvcName, flt, fk) ==
    With(NewUntapCommand(c, namespace, targetSvcName, "rb.", flt, fk), LAMBDA u :
        [c |-> u.c,
         rb |-> [ran |-> TRUE, err |-> u.err, calls |-> u.calls,
                 steps |-> <<[c EXCEPT !.cms = u.c.cms],
                             [c EXCEPT !.cms = u.c.cms, !.dpls = u.c.dpls],
                             u.c>>]])

\* a tap that skips the check of the original-port annotation
alreadyTappedSkipped(targetService) == FALSE

\* anns[annotationOriginalTargetPort] != ""
alreadyTapped(targetService) ==
    MapGet(targetService.anns, annotationOriginalTargetPort) # ""

NewTapCommand(c, targetSvcName, a, flt, fk) ==
    LET namespace == IF a.namespace = "" THEN "default" ELSE a.namespace
        has == hasNamespace(namespace)
        get == GetService(c, namespace, targetSvcName)
        targetService == get.obj
        c1 == has.calls \o <<"svc.get">>
    IN  IF a.port = 0
        THEN TapReturn(c, <<"--port flag not provided">>, <<>>, NoRollback, "")
        ELSE IF has.err # Nil
        THEN TapReturn(c, Wrap("error fetching namespaces", has.err), has.calls,
                       NoRollback, "")
        ELSE IF ~has.exists
        THEN TapReturn(c, ErrNamespaceNotExist, has.calls, NoRollback, "")
        ELSE IF a.image = defaultImageHTTP
                /\ a.protocol \in {protocolTCP, protocolUDP, protocolGRPC}
        THEN TapReturn(c, <<"mode is currently not supported">>, has.calls,
                       NoRollback, "")
        ELSE IF get.err # Nil THEN TapReturn(c, get.err, c1, NoRollback, "")
        ELSE IF alreadyTapped(targetService)
        THEN TapReturn(c, ErrServiceTapped, c1, NoRollback, "")
        ELSE
        With(resolveUpstreamPort(c, namespace, targetService, a.port, 1,
                 [UpstreamPort |-> "", err |-> Nil, calls |-> <<>>]),
             LAMBDA res :
        IF res.err # Nil
        THEN TapReturn(c, res.err, c1 \o res.calls, NoRollback, "")
        ELSE
        With(deploymentFromSelectors(c, namespace, targetService.selector),
             LAMBDA targetDpl :
        LET c3 == c1 \o res.calls \o targetDpl.calls
            proxyOpts == ProxyOptions(targetSvcName, a.https, res.UpstreamPort,
                                      namespace, targetDpl.dpl.name)
        IN
        IF targetDpl.err # Nil
        THEN TapReturn(c, Wrap("error resolving Deployment from Service selectors",
                               targetDpl.err), c3, NoRollback, res.UpstreamPort)
        \* no proxy is set for these protocols: proxy.ReadyEnv() is a call
        \* on a nil interface
        ELSE IF a.protocol \in {protocolTCP, protocolUDP, protocolGRPC}
        THEN TapReturn(c, <<"panic: nil pointer dereference">>, c3, NoRollback,
                       res.UpstreamPort)
        ELSE
        With(ReadyEnv(c, proxyOpts, flt), LAMBDA env :
        IF env.err # Nil
        THEN Stepped(<<env.c>>,
                     TapReturn(env.c, env.err, c3 \o env.calls, NoRollback,
                               res.UpstreamPort))
        ELSE
        With(deploymentFromSelectors(env.c, namespace, targetService.selector),
             LAMBDA loc :
        LET c5 == c3 \o env.calls \o loc.calls
            sidecar == [Sidecar(loc.dpl.name) EXCEPT !.image = a.image]
        IN
        IF loc.err # Nil
        THEN Stepped(<<env.c>>,
                     TapReturn(env.c, loc.err, c5, NoRollback, res.UpstreamPort))
        ELSE
        With(tapDeployment(env.c, loc.dpl, sidecar, "dpl.update" \in flt, fk),
             LAMBDA dup :
        IF dup.err # Nil
        THEN With(Rollback(dup.c, namespace, targetSvcName, flt, fk), LAMBDA rb1 :
                 Sent(dup.sent, Stepped(<<env.c, dup.c>>,
                   TapReturn(rb1.c,
                             Wrap("failed to add sidecars to Deployment", dup.err),
                             c5 \o dup.calls, rb1.rb, res.UpstreamPort))))
        ELSE
        With(tapSvc(dup.c, namespace, targetSvcName, a.port,
                    "svc.update" \in flt, fk),
             LAMBDA swap :
        IF swap.err # Nil
        THEN With(Rollback(swap.c, namespace, targetSvcName, flt, fk), LAMBDA rb2 :
                 Sent(dup.sent, Stepped(<<env.c, dup.c, swap.c>>,
                   TapReturn(rb2.c, swap.err, c5 \o dup.calls \o swap.calls,
                             rb2.rb, res.UpstreamPort))))
        ELSE Sent(dup.sent, Stepped(<<env.c, dup.c, swap.c>>,
                     TapReturn(swap.c, Nil, c5 \o dup.calls \o swap.calls,
                               NoRollback, res.UpstreamPort)))))))))

(***************************************************************************)
(* The clusters a run starts from: the fixtures of the tests (one Service  *)
(* sample-service in namespace default, not tapped, its port numbers       *)
(* distinct) with the variations the handlers distinguish.                 *)
(***************************************************************************)
targetSvcName == "sample-service"

simpleService(ports, anns, selector) ==
    [name |-> targetSvcName, namespace |-> "default", anns |-> anns,
     selector |-> selector, ports |-> ports]

PortFixtures ==
    { <<ServicePort("servicePortOne", 80, FromInt(8080))>>,
      <<ServicePort("", 80, FromInt(8080))>>,
      <<ServicePort("servicePortOne", 80, FromString("http"))>>,
      <<ServicePort("servicePortOne", 80, FromInt(8080)),
        ServicePort("metrics", 9000, FromInt(9090))>>,
      \* a Service of the user that itself routes to port 7777
      <<ServicePort("servicePortOne", 80, FromInt(8080)),
        ServicePort("admin", 9000, FromInt(kubetapProxyListenPort))>>,
      \* a Service of the user with an entry of its own named kubetap-web
      <<ServicePort("servicePortOne", 80, FromInt(8080)),
        ServicePort(kubetapServicePortName, 9000, FromInt(9090))>> }

SelectorFixtures ==
    {EmptyMap, ("app" :> "myapp"), ("app" :> "myapp") @@ ("tier" :> "web")}

someapp(ports) ==
    Container("someapp", "gcr.io/soluble-oss/someapp:latest", ports, <<"data">>)

simpleDeployment(name, ns, labels, ports) ==
    [Deployment(name, ns, labels, <<someapp(ports)>>)
        EXCEPT !.volumes = <<Volume("data", "EmptyDir", "")>>]

AllLabels == ("app" :> "myapp") @@ ("tier" :> "web")

HttpPort == <<ContainerPort("http", 8080)>>

OneDeployment ==
    <<simpleDeployment("sample-deployment", "default", AllLabels, HttpPort)>>

DeploymentFixtures ==
    { OneDeployment,
      <<simpleDeployment("sample-deployment", "default", AllLabels, <<>>)>>,
      <<>>,
      <<simpleDeployment("sample-deployment", "default", AllLabels, HttpPort),
        simpleDeployment("two", "default", AllLabels, HttpPort)>>,
      <<simpleDeployment("sample-deployment", "default", EmptyMap, HttpPort)>>,
      <<simpleDeployment("sample-deployment", "foo", AllLabels, HttpPort)>>,
      <<simpleDeployment("sample-deployment", "default", ("app" :> "myapp"),
                         HttpPort)>> }

\* Deployments whose own labels and pod-template labels differ: labelled
\* as the fixture simpleDeployment is (the object only), and labelled on
\* the pod template only
LabelFixtures ==
    { <<[simpleDeployment("sample-deployment", "default", ("app" :> "myapp"),
                          HttpPort) EXCEPT !.tmplLabels = EmptyMap]>>,
      <<[simpleDeployment("sample-deployment", "default", EmptyMap, HttpPort)
            EXCEPT !.tmplLabels = ("app" :> "myapp")]>> }

\* a ConfigMap left by an earlier run, with and without its annotation
strayConfigMap(anns) ==
    ConfigMap(kubetapConfigMapPrefix \o "sample-deployment", "default", anns,
              (mitmproxyConfigFile :> "stale"))

ConfigMapFixtures ==
    { <<>>,
      <<strayConfigMap(annotationConfigMap :>
            (configMapAnnotationPrefix \o "sample-deployment"))>>,
      <<strayConfigMap(EmptyMap)>> }

Fixtures ==
    { Cluster(simpleService(p, EmptyMap, ("app" :> "myapp")), OneDeployment, <<>>) :
        p \in PortFixtures }
    \cup
    { Cluster(simpleService(<<ServicePort("servicePortOne", 80, FromInt(8080))>>,
                            ("my-annotation" :> "some-annotation"),
                            ("app" :> "myapp")),
              OneDeployment, m) : m \in ConfigMapFixtures }
    \cup
    { Cluster(simpleService(<<ServicePort("servicePortOne", 80, FromInt(8080))>>,
                            ("my-annotation" :> "some-annotation"), s), d, <<>>) :
        s \in SelectorFixtures, d \in DeploymentFixtures }
    \cup
    { Cluster(simpleService(<<ServicePort("servicePortOne", 80, FromString("http"))>>,
                            EmptyMap, ("app" :> "myapp")), d, <<>>) :
        d \in DeploymentFixtures }
    \cup
    { Cluster(simpleService(<<ServicePort("servicePortOne", 80, FromInt(8080))>>,
                            ("my-annotation" :> "some-annotation"),
                            ("app" :> "myapp")), d, <<>>) :
        d \in LabelFixtures }

(***************************************************************************)
(* The inputs of the commands.                                             *)
(***************************************************************************)
TapArgs(port, ns, protocol, image, https) ==
    [port |-> port, namespace |-> ns, protocol |-> protocol, image |-> image,
     https |-> https, portForward |-> FALSE]

\* the same invocation with --port-forward (or --browser, which sets it)
Interactive(a) == [a EXCEPT !.portForward = TRUE]

\* a second Service of the namespace whose selector resolves to the same
\* Deployment as that of sample-service
peerSvcName == "other-service"

peerService ==
    [name |-> peerSvcName, namespace |-> "default", anns |-> EmptyMap,
     selector |-> ("app" :> "myapp"),
     ports |-> <<ServicePort("peerPort", 81, FromInt(9090))>>]

\* the cluster as kubectl tap on other-service -p81 leaves it
tappedPeer ==
    NewTapCommand(Cluster(peerService, OneDeployment, <<>>), peerSvcName,
                  TapArgs(81, "default", protocolHTTP, defaultImageHTTP, FALSE),
                  {}, "error").c

\* sample-service, untapped, next to the tapped other-service: others are
\* the Services of the cluster that no command of the run names
PeerFixtures ==
    { [c |-> Cluster(simpleService(<<ServicePort("servicePortOne", 80,
                                                 FromInt(8080))>>,
                                   EmptyMap, ("app" :> "myapp")),
                     tappedPeer.dpls, tappedPeer.cms),
       others |-> <<tappedPeer.svc>>] }

TapFaultPoints ==
    {"cm.create", "cm.delete", "dpl.update", "svc.update",
     "rb.cm.delete", "rb.dpl.update", "rb.svc.update"}

UntapFaultPoints == {"cm.delete", "dpl.update", "svc.update"}

UpdatePoints == {"dpl.update", "svc.update", "rb.dpl.update", "rb.svc.update"}

\* the write calls that fail in one run, and how its Updates fail
Faults(points) ==
    { [flt |-> F, fk |-> k] :
        F \in {G \in SUBSET points : Cardinality(G) <= MaxFaults},
        k \in {"error", "conflict", "conflict1"} }
    \ { [flt |-> F, fk |-> k] :
        F \in {G \in SUBSET points : G \cap UpdatePoints = {}},
        k \in {"conflict", "conflict1"} }

NoFault == [flt |-> {}, fk |-> "error"]

\* tap on sample-service: a well-formed invocation with any faults, and
\* the invocations the handler turns down or that differ in an option
TapInputs ==
    { [a |-> TapArgs(80, "default", protocolHTTP, defaultImageHTTP, FALSE), f |-> f] :
        f \in Faults(TapFaultPoints) }
    \cup
    \* a port the Service does not have, with at most one failing call
    { [a |-> TapArgs(9999, "default", protocolHTTP, defaultImageHTTP, FALSE), f |-> f] :
        f \in {g \in Faults(TapFaultPoints) : Cardinality(g.flt) <= 1} }
    \cup
    { [a |-> a, f |-> NoFault] :
        a \in { TapArgs(9000, "default", protocolHTTP, defaultImageHTTP, FALSE),
                TapArgs(80, "default", protocolHTTP, defaultImageHTTP, TRUE),
                TapArgs(0, "default", protocolHTTP, defaultImageHTTP, FALSE),
                TapArgs(80, "", protocolHTTP, defaultImageHTTP, FALSE),
                TapArgs(80, "foo", protocolHTTP, defaultImageHTTP, FALSE),
                TapArgs(80, "notexist", protocolHTTP, defaultImageHTTP, FALSE),
                TapArgs(80, "default", protocolHTTP, "custom", FALSE),
                TapArgs(80, "default", protocolTCP, defaultImageHTTP, FALSE),
                TapArgs(80, "default", protocolGRPC, defaultImageHTTP, FALSE),
                TapArgs(80, "default", protocolUDP, "custom", FALSE),
                TapArgs(0, "notexist", protocolHTTP, defaultImageHTTP, FALSE) } }
    \cup
    \* a namespace left unset, with a rollback
    { [a |-> TapArgs(80, "", protocolHTTP, defaultImageHTTP, FALSE),
       f |-> [flt |-> {x}, fk |-> "error"]] : x \in {"dpl.update", "svc.update"} }
    \cup
    \* a tap that stays in the foreground
    { [a |-> Interactive(TapArgs(80, "", protocolHTTP, defaultImageHTTP, FALSE)),
       f |-> NoFault] }

UntapInputs ==
    { [namespace |-> "default", f |-> f] : f \in Faults(UntapFaultPoints) }
    \cup { [namespace |-> n, f |-> NoFault] : n \in {"", "foo", "notexist"} }

\* how the untap that the signal listener runs may fail
ListenerFaults ==
    {NoFault} \cup {[flt |-> {x}, fk |-> "error"] : x \in UntapFaultPoints}

\* what a readiness check finds: it is skipped (the rendezvous channel has
\* no sender yet, or the timer wins the select), the Pod is there and not
\* ready, it is ready, or no Pod carries the tapped annotation
CheckOutcomes == {"skip", "notready", "ready", "nopod"}

\* how the set-up of the port-forward ends: it is established, no Pod
\* carries the annotation, or the dialer or the forwarder fails
ForwardOutcomes == {"ok", "nopod", "err"}

\* how ForwardPorts returns when the connection to the Pod is lost
LostOutcomes == {"nil", "err"}

\* the namespace flag of tap list
ListInputs == {"", "default", "foo", "notexist"}

(***************************************************************************)
(* The state machine.  kubectl-tap is a command line program: a command    *)
(* runs to its end and the process exits, so the commands of a run are     *)
(* sequential.  last is the command that ran last and has not exited yet:  *)
(* its inputs, what it returned, the API calls it made and the cluster it  *)
(* started from.  rt follows a tap that succeeded and the untap run right  *)
(* after it.  nops counts the commands run.                                *)
(***************************************************************************)
NoRt == [phase |-> "none", svc0 |-> <<>>, dpls0 |-> <<>>]

\* the process of an interactive tap (--port-forward), from the moment
\* the tap is committed.  pc is the place of the main flow: the readiness
\* loop ("wait", with its counter i and its flag ready), ForwardPorts
\* ("forward"), the receive from halt ("halt"), or the process is gone
\* ("exited", how tells by which way, err with which error).  lis is the
\* place of the signal listener: at its receive from ic ("idle"), past
\* close(stopCh) ("stopped"), past its untap ("untapped").  ic and halt
\* tell whether a signal is buffered in the channel; sigs counts the
\* signals sent; ns and selector are the namespace and the Service
\* selector the tap holds.  snd tells whether a goroutine is at its send
\* on the rendezvous channel s (the one of the grace period, or the one a
\* readiness check started), closed whether s was closed.  u counts the
\* stages the untap of the listener has behind it while it runs: the
\* ConfigMap deleted (1), the Deployment updated (2).
NoIa ==
    [pc |-> "none", i |-> 0, ready |-> FALSE, lis |-> "idle", ic |-> FALSE,
     halt |-> FALSE, sigs |-> 0, how |-> "", err |-> Nil, ns |-> "",
     selector |-> EmptyMap, snd |-> FALSE, closed |-> FALSE, u |-> 0]

NoCommand ==
    [op |-> "none", args |-> <<>>, flt |-> {}, fk |-> "error", err |-> Nil,
     calls |-> <<>>,
     rb |-> NoRollback, UpstreamPort |-> "", pre |-> <<>>, out |-> {},
     steps |-> <<>>, sent |-> <<>>]

(***************************************************************************)
(* Two invocations of kubectl tap on the same Service, each a process of   *)
(* its own, run at the same time.  A step is one call to the API server.   *)
(* The server keeps a resourceVersion with every object and refuses with   *)
(* a conflict the Update of an object read before the last change.         *)
(* race.ver are the versions of the Deployment and of the Service, and     *)
(* race.p[k] is process k: pc its place, port its --port, up the upstream  *)
(* port it resolved, name the Deployment it resolved, cm the ConfigMap     *)
(* its List found, dpl and s the Deployment and the Service it holds with  *)
(* the versions dv and sv they were read at, i the attempts its retry loop *)
(* has behind it, err the error NewTapCommand returns.                     *)
(***************************************************************************)
Procs == {1, 2}

NoProc ==
    [pc |-> "none", port |-> 0, up |-> "", name |-> "", cm |-> "",
     dpl |-> NoDeployment, dv |-> 0, s |-> <<>>, sv |-> 0, i |-> 0, err |-> Nil]

NoRace == [ver |-> [dpl |-> 0, svc |-> 0], p |-> [k \in Procs |-> NoProc]]

Init ==
    /\ \/ \E f \in Fixtures :
             svc = f.svc /\ dpls = f.dpls /\ cms = f.cms /\ others = <<>>
       \/ \E p \in PeerFixtures :
             svc = p.c.svc /\ dpls = p.c.dpls /\ cms = p.c.cms /\ others = p.others
    /\ last = NoCommand
    /\ rt = NoRt
    /\ nops = 0
    /\ ia = NoIa
    /\ race = NoRace

Tap(in) ==
    /\ last.op = "none"
    /\ nops < MaxOps
    \* a run has its foreground tap, if any, as its first command
    /\ in.a.portForward => nops = 0
    /\ \E c \in {Cluster(svc, dpls, cms)} :
       \E r \in {NewTapCommand(c, targetSvcName, in.a, in.f.flt, in.f.fk)} :
           /\ svc' = r.c.svc
           /\ dpls' = r.c.dpls
           /\ cms' = r.c.cms
           /\ last' = [op |-> "tap", args |-> in.a, flt |-> in.f.flt,
                       fk |-> in.f.fk,
                       err |-> r.err, calls |-> r.calls, rb |-> r.rb,
                       UpstreamPort |-> r.UpstreamPort, pre |-> c, out |-> {},
                       steps |-> r.steps \o r.rb.steps, sent |-> r.sent]
           /\ rt' = IF r.err = Nil
                    THEN [phase |-> "tapped", svc0 |-> svc, dpls0 |-> dpls]
                    ELSE NoRt
           \* with --port-forward a committed tap goes on to the readiness
           \* loop, the signal listener registered
           /\ ia' = IF r.err = Nil /\ in.a.portForward
                    THEN [NoIa EXCEPT
                            !.pc = "wait",
                            !.snd = TRUE,
                            !.ns = IF in.a.namespace = "" THEN "default"
                                   ELSE in.a.namespace,
                            !.selector = c.svc.selector]
                    ELSE NoIa
    /\ nops' = nops + 1
    /\ UNCHANGED others

Untap(in) ==
    /\ last.op = "none"
    /\ nops < MaxOps
    /\ \E c \in {Cluster(svc, dpls, cms)} :
       \E r \in {NewUntapCommand(c, in.namespace, targetSvcName, "", in.f.flt,
                                 in.f.fk)} :
           /\ svc' = r.c.svc
           /\ dpls' = r.c.dpls
           /\ cms' = r.c.cms
           /\ last' = [op |-> "untap",
                       args |-> TapArgs(0, in.namespace, "", "", FALSE),
                       flt |-> in.f.flt, fk |-> in.f.fk, err |-> r.err,
                       calls |-> r.calls,
                       rb |-> NoRollback, UpstreamPort |-> "", pre |-> c,
                       out |-> {}, steps |-> <<>>, sent |-> <<>>]
           /\ rt' = IF r.err = Nil /\ rt.phase = "tapped"
                    THEN [rt EXCEPT !.phase = "untapped"]
                    ELSE NoRt
    /\ nops' = nops + 1
    /\ UNCHANGED <<ia, others>>

\* tap list: reads only; out is the set of tapped Services it prints
List(ns) ==
    /\ last.op = "none"
    /\ nops < MaxOps
    /\ \E c \in {Cluster(svc, dpls, cms)} :
       \E r \in {NewListCommand(c, others, ns)} :
           last' = [op |-> "list", args |-> TapArgs(0, ns, "", "", FALSE),
                    flt |-> {}, fk |-> "error", err |-> r.err,
                    calls |-> r.calls, rb |-> NoRollback, UpstreamPort |-> "",
                    pre |-> c, out |-> r.out, steps |-> <<>>, sent |-> <<>>]
    /\ rt' = NoRt
    /\ nops' = nops + 1
    /\ UNCHANGED <<svc, dpls, cms, others, ia>>

\* the command's process exits (main.go: die, or the end of main): what it
\* returned is gone, the cluster stays
Exit ==
    /\ last.op # "none"
    /\ ia.pc \in {"none", "exited"}
    /\ last' = NoCommand
    /\ ia' = NoIa
    /\ rt' = IF rt.phase = "untapped" THEN NoRt ELSE rt
    /\ UNCHANGED <<svc, dpls, cms, others, nops>>

(***************************************************************************)
(* The interactive flow of tap (tap.go:362-491): the main flow and the     *)
(* signal listener run side by side; a step of one is an action.           *)
(***************************************************************************)
Running == ia.pc \in {"wait", "forward", "halt"}

\* the main flow ends the process: die, or NewTapCommand returns to main.
\* A return runs the deferred close(s); die is os.Exit, which runs no
\* deferred call.
MainExits(how, err) ==
    [ia EXCEPT !.pc = "exited", !.how = how, !.err = err,
               !.closed = how \in {"error", "return"}]

\* the value sent on s was received and no goroutine sends another
Received(r) == [r EXCEPT !.snd = FALSE]

\* an interrupt or termination signal reaches the process: every channel
\* registered with signal.Notify receives it (ic always, halt once the
\* main flow has registered it)
Signal ==
    /\ Running
    /\ ia.sigs < MaxSignals
    /\ ia' = [ia EXCEPT !.sigs = @ + 1, !.ic = TRUE,
                        !.halt = @ \/ ia.pc = "halt"]
    /\ UNCHANGED <<svc, dpls, cms, others, last, rt, nops>>

\* the listener: <-ic; close(stopCh)
ListenerStop ==
    /\ Running
    /\ ia.lis = "idle"
    /\ ia.ic
    /\ ia' = [ia EXCEPT !.lis = "stopped", !.ic = FALSE]
    /\ UNCHANGED <<svc, dpls, cms, others, last, rt, nops>>

\* the cluster the untap of the listener started from: the one the tap
\* left, which nothing else writes to
UntapStart ==
    IF ia.u = 0 THEN Cluster(svc, dpls, cms) ELSE last.steps[Len(last.steps)]

\* the listener, inside NewUntapCommand: one stage of an untap that goes
\* well, UnreadyEnv and then the update of the Deployment; the main flow
\* runs on meanwhile.  last keeps what the tap returned.
ListenerUntapStage ==
    /\ Running
    /\ ia.lis = "stopped"
    /\ ia.u < 2
    /\ \E r \in {NewUntapCommand(UntapStart, ia.ns, targetSvcName, "", {},
                                  "error")} :
           /\ r.err = Nil
           /\ cms' = r.c.cms
           /\ dpls' = IF ia.u = 1 THEN r.c.dpls ELSE dpls
    /\ ia' = [ia EXCEPT !.u = @ + 1]
    \* the tap is no longer the command that ran last
    /\ last' = [last EXCEPT !.op = "untapping"]
    /\ UNCHANGED <<svc, others, rt, nops>>

\* the listener: _ = NewUntapCommand(client, viper)(cmd, args), to its end
ListenerUntap(f) ==
    /\ Running
    /\ ia.lis = "stopped"
    \* the stages it has behind it did not fail
    /\ ia.u >= 1 => "cm.delete" \notin f.flt
    /\ ia.u = 2 => "dpl.update" \notin f.flt
    /\ \E c \in {UntapStart} :
       \E r \in {NewUntapCommand(c, ia.ns, targetSvcName, "", f.flt, f.fk)} :
           /\ svc' = r.c.svc
           /\ dpls' = r.c.dpls
           /\ cms' = r.c.cms
           /\ last' = [op |-> "untap",
                       args |-> TapArgs(0, ia.ns, "", "", FALSE),
                       flt |-> f.flt, fk |-> f.fk, err |-> r.err,
                       calls |-> r.calls,
                       rb |-> NoRollback, UpstreamPort |-> "", pre |-> c,
                       out |-> {}, steps |-> <<>>, sent |-> <<>>]
           /\ rt' = IF r.err = Nil /\ rt.phase = "tapped"
                    THEN [rt EXCEPT !.phase = "untapped"]
                    ELSE NoRt
    /\ ia' = [ia EXCEPT !.lis = "untapped", !.u = 0]
    /\ UNCHANGED <<nops, others>>

\* the listener: die()
ListenerDie ==
    /\ Running
    /\ ia.lis = "untapped"
    /\ ia' = [ia EXCEPT !.pc = "exited", !.how = "listener"]
    /\ UNCHANGED <<svc, dpls, cms, others, last, rt, nops>>

\* one cycle of the readiness loop (tap.go:400-431)
Cycle(o) ==
    /\ ia.pc = "wait"
    /\ ~ia.ready
    /\ ia.i < interactiveTimeoutSeconds
    /\ \E loc \in {deploymentFromSelectors(Cluster(svc, dpls, cms), ia.ns,
                                           ia.selector)} :
          ia' = IF o = "skip" THEN [ia EXCEPT !.i = @ + 1]
                ELSE IF loc.err # Nil THEN Received(MainExits("error", loc.err))
                ELSE IF o = "nopod"
                THEN Received(MainExits("error", ErrKubetapPodNoMatch))
                \* go func() { s <- struct{}{} }()
                ELSE [ia EXCEPT !.i = @ + 1, !.ready = (o = "ready"),
                                !.snd = TRUE]
    \* case <-s: a check runs only when a goroutine is at its send
    /\ o # "skip" => ia.snd
    /\ UNCHANGED <<svc, dpls, cms, others, last, rt, nops>>

\* a timeout that untaps before it ends the process
LoopTimeoutUntaps ==
    /\ ia.pc = "wait"
    /\ ~ia.ready
    /\ ia.i = interactiveTimeoutSeconds
    /\ \E c \in {Cluster(svc, dpls, cms)} :
       \E r \in {NewUntapCommand(c, ia.ns, targetSvcName, "", {}, "error")} :
           /\ svc' = r.c.svc
           /\ dpls' = r.c.dpls
           /\ cms' = r.c.cms
    /\ ia' = MainExits("timeout", Nil)
    /\ UNCHANGED <<last, rt, nops, others>>

\* the loop has run its cycles and the Pod was not seen ready:
\* die("Pod not running after 90 seconds. ...")
LoopTimeout ==
    /\ ia.pc = "wait"
    /\ ~ia.ready
    /\ ia.i = interactiveTimeoutSeconds
    /\ ia' = MainExits("timeout", Nil)
    /\ UNCHANGED <<svc, dpls, cms, others, last, rt, nops>>

\* a port-forward set up whether the Pod was seen ready or not
StartForwardUnready(o) ==
    /\ ia.pc = "wait"
    /\ ia.ready \/ ia.i = interactiveTimeoutSeconds
    /\ \E loc \in {deploymentFromSelectors(Cluster(svc, dpls, cms), ia.ns,
                                           ia.selector)} :
          ia' = IF loc.err # Nil THEN MainExits("error", loc.err)
                ELSE IF o = "nopod" THEN MainExits("error", ErrKubetapPodNoMatch)
                ELSE IF o = "err" THEN MainExits("error", ErrAPI)
                ELSE [ia EXCEPT !.pc = "forward"]
    /\ UNCHANGED <<svc, dpls, cms, others, last, rt, nops>>

\* the Pod was seen ready: the port-forward is set up (tap.go:436-484)
StartForward(o) ==
    /\ ia.pc = "wait"
    /\ ia.ready
    /\ \E loc \in {deploymentFromSelectors(Cluster(svc, dpls, cms), ia.ns,
                                           ia.selector)} :
          ia' = IF loc.err # Nil THEN MainExits("error", loc.err)
                ELSE IF o = "nopod" THEN MainExits("error", ErrKubetapPodNoMatch)
                ELSE IF o = "err" THEN MainExits("error", ErrAPI)
                ELSE [ia EXCEPT !.pc = "forward"]
    /\ UNCHANGED <<svc, dpls, cms, others, last, rt, nops>>

\* fw.ForwardPorts() returns because stopCh is closed
ForwardStopped ==
    /\ ia.pc = "forward"
    /\ ia.lis # "idle"
    /\ ia' = [ia EXCEPT !.pc = "halt"]
    /\ UNCHANGED <<svc, dpls, cms, others, last, rt, nops>>

\* fw.ForwardPorts() returns because the connection to the Pod is lost
ForwardLost(o) ==
    /\ ia.pc = "forward"
    /\ ia' = IF o = "err" THEN MainExits("error", ErrAPI)
             ELSE [ia EXCEPT !.pc = "halt"]
    /\ UNCHANGED <<svc, dpls, cms, others, last, rt, nops>>

\* <-halt; return nil
HaltReturn ==
    /\ ia.pc = "halt"
    /\ ia.halt
    /\ ia' = MainExits("return", Nil)
    /\ UNCHANGED <<svc, dpls, cms, others, last, rt, nops>>

Next ==
    \/ \E in \in TapInputs : Tap(in) /\ UNCHANGED race
    \/ \E in \in UntapInputs : Untap(in) /\ UNCHANGED race
    \/ \E ns \in ListInputs : List(ns) /\ UNCHANGED race
    \/ Signal /\ UNCHANGED race
    \/ ListenerStop /\ UNCHANGED race
    \/ ListenerUntapStage /\ UNCHANGED race
    \/ \E f \in ListenerFaults : ListenerUntap(f) /\ UNCHANGED race
    \/ ListenerDie /\ UNCHANGED race
    \/ \E o \in CheckOutcomes : Cycle(o) /\ UNCHANGED race
    \/ LoopTimeout /\ UNCHANGED race
    \/ \E o \in ForwardOutcomes : StartForward(o) /\ UNCHANGED race
    \/ ForwardStopped /\ UNCHANGED race
    \/ \E o \in LostOutcomes : ForwardLost(o) /\ UNCHANGED race
    \/ HaltReturn /\ UNCHANGED race
    \/ Exit /\ UNCHANGED race

Spec == Init /\ [][Next]_vars

(***************************************************************************)
(* The race of two taps.                                                   *)
(***************************************************************************)
\* sample-service, untapped, with Int target ports, its one Deployment
\* and no ConfigMap
RaceFixtures ==
    { Cluster(simpleService(p, EmptyMap, ("app" :> "myapp")), OneDeployment, <<>>) :
        p \in { <<ServicePort("servicePortOne", 80, FromInt(8080))>>,
                <<ServicePort("", 80, FromInt(8080))>>,
                <<ServicePort("servicePortOne", 80, FromInt(8080)),
                  ServicePort("metrics", 9000, FromInt(9090))>> } }

InitRace ==
    /\ \E f \in RaceFixtures :
          /\ svc = f.svc /\ dpls = f.dpls /\ cms = f.cms
          /\ \E ports \in [Procs -> {f.svc.ports[j].port : j \in 1..Len(f.svc.ports)}] :
                race = [NoRace EXCEPT !.p = [k \in Procs |->
                            [NoProc EXCEPT !.pc = "get", !.port = ports[k]]]]
    /\ others = <<>>
    /\ last = NoCommand
    /\ rt = NoRt
    /\ nops = 0
    /\ ia = NoIa

\* the rest of the state is that of one process alone
RaceFrame == UNCHANGED <<last, rt, nops, ia, others>>

\* process k moves on as r; a process that returned holds nothing
RaceGoto(k, r) ==
    race' = [race EXCEPT !.p[k] =
                IF r.pc = "done"
                THEN [NoProc EXCEPT !.pc = "done", !.port = r.port, !.err = r.err]
                ELSE r]

\* the same with the version of kind bumped when the stored object changed
RaceWrote(k, r, kind, changed) ==
    race' = [race EXCEPT
                !.p[k] = IF r.pc = "done"
                         THEN [NoProc EXCEPT !.pc = "done", !.port = r.port,
                                             !.err = r.err]
                         ELSE r,
                !.ver[kind] = IF changed THEN @ + 1 ELSE @]

\* a conflict inside RetryOnConflict: the loop runs the closure again at
\* pc again, and after RetrySteps attempts the conflict is what it returns
RaceConflict(k, again, out, text) ==
    IF race.p[k].i + 1 >= RetrySteps
    THEN RaceGoto(k, [race.p[k] EXCEPT !.pc = out, !.i = 0,
                         !.err = IF out = "done" THEN @
                                 ELSE Wrap(text, ErrConflict)])
    ELSE RaceGoto(k, [again EXCEPT !.i = @ + 1])

\* Services(namespace).Get and the check of the annotation
RaceGet(k) ==
    /\ race.p[k].pc = "get"
    /\ \E get \in {GetService(Cluster(svc, dpls, cms), "default", targetSvcName)} :
       \E res \in {resolveUpstreamPort(Cluster(svc, dpls, cms), "default", get.obj,
                       race.p[k].port, 1,
                       [UpstreamPort |-> "", err |-> Nil, calls |-> <<>>])} :
          IF alreadyTapped(get.obj)
          THEN RaceGoto(k, [race.p[k] EXCEPT !.pc = "done", !.err = ErrServiceTapped])
          ELSE RaceGoto(k, [race.p[k] EXCEPT !.pc = "locate",
                                             !.up = res.UpstreamPort])
    /\ UNCHANGED <<svc, dpls, cms>>
    /\ RaceFrame

\* deploymentFromSelectors: before ReadyEnv in tap, after the Get in untap
RaceLocate(k) ==
    /\ race.p[k].pc \in {"locate", "ulocate"}
    /\ \E loc \in {deploymentFromSelectors(Cluster(svc, dpls, cms), "default",
                                           svc.selector)} :
          IF loc.err # Nil
          THEN RaceGoto(k, [race.p[k] EXCEPT !.pc = "done",
                   !.err = IF race.p[k].pc = "locate"
                           THEN Wrap("error resolving Deployment from Service selectors",
                                     loc.err)
                           ELSE @])
          ELSE RaceGoto(k, [race.p[k] EXCEPT
                   !.pc = IF @ = "locate" THEN "create" ELSE "ucmlist",
                   !.name = loc.dpl.name])
    /\ UNCHANGED <<svc, dpls, cms>>
    /\ RaceFrame

\* createMitmproxyConfigMap, the first and the second one of ReadyEnv
RaceCreate(k) ==
    /\ race.p[k].pc \in {"create", "create2"}
    /\ \E r \in {createMitmproxyConfigMap(Cluster(svc, dpls, cms),
                     ProxyOptions(targetSvcName, FALSE, race.p[k].up, "default",
                                  race.p[k].name), FALSE)} :
          /\ cms' = r.c.cms
          /\ IF r.err = Nil THEN RaceGoto(k, [race.p[k] EXCEPT !.pc = "list"])
             ELSE IF race.p[k].pc = "create"
             THEN RaceGoto(k, [race.p[k] EXCEPT !.pc = "destroy"])
             ELSE RaceGoto(k, [race.p[k] EXCEPT !.pc = "done", !.err = r.err])
    /\ UNCHANGED <<svc, dpls>>
    /\ RaceFrame

\* the List of destroyMitmproxyConfigMap, called by ReadyEnv and by
\* UnreadyEnv: both go on when there is no ConfigMap
RaceConfigMapList(k) ==
    /\ race.p[k].pc \in {"destroy", "ucmlist"}
    /\ \E found \in {SelectSeq(cms, LAMBDA m :
                        /\ m.namespace = "default"
                        /\ annotationConfigMap \in DOMAIN m.anns
                        /\ m.anns[annotationConfigMap]
                               = configMapAnnotationPrefix \o race.p[k].name)} :
          IF Len(found) = 0
          THEN RaceGoto(k, [race.p[k] EXCEPT
                   !.pc = IF @ = "destroy" THEN "create2" ELSE "udget"])
          ELSE RaceGoto(k, [race.p[k] EXCEPT
                   !.pc = IF @ = "destroy" THEN "destroyDelete" ELSE "ucmdelete",
                   !.cm = found[1].name])
    /\ UNCHANGED <<svc, dpls, cms>>
    /\ RaceFrame

\* its Delete: ReadyEnv drops the error, the untap returns it
RaceConfigMapDelete(k) ==
    /\ race.p[k].pc \in {"destroyDelete", "ucmdelete"}
    /\ \E r \in {DeleteConfigMap(Cluster(svc, dpls, cms), race.p[k].cm, "default",
                                 FALSE)} :
          /\ cms' = r.c.cms
          /\ IF race.p[k].pc = "destroyDelete"
             THEN RaceGoto(k, [race.p[k] EXCEPT !.pc = "create2", !.cm = ""])
             ELSE IF r.err # Nil
             THEN RaceGoto(k, [race.p[k] EXCEPT !.pc = "done"])
             ELSE RaceGoto(k, [race.p[k] EXCEPT !.pc = "udget", !.cm = ""])
    /\ UNCHANGED <<svc, dpls>>
    /\ RaceFrame

\* deploymentFromSelectors after ReadyEnv: dpl, with the version it has
RaceList(k) ==
    /\ race.p[k].pc = "list"
    /\ \E loc \in {deploymentFromSelectors(Cluster(svc, dpls, cms), "default",
                                           svc.selector)} :
          IF loc.err # Nil
          THEN RaceGoto(k, [race.p[k] EXCEPT !.pc = "done", !.err = loc.err])
          ELSE RaceGoto(k, [race.p[k] EXCEPT !.pc = "update", !.dpl = loc.dpl,
                                             !.dv = race.ver.dpl, !.i = 0])
    /\ UNCHANGED <<svc, dpls, cms>>
    /\ RaceFrame

\* one attempt of the loop of tap on the Deployment: the closure changes
\* dpl in place and sends it; after the last conflict the tap rolls back
RaceUpdate(k) ==
    /\ race.p[k].pc = "update"
    /\ \E d \in {tapDeploymentClosure(race.p[k].dpl,
                     [Sidecar(race.p[k].dpl.name) EXCEPT !.image = defaultImageHTTP])} :
          IF race.p[k].dv = race.ver.dpl
          THEN /\ dpls' = UpdateDeployment(Cluster(svc, dpls, cms), d).dpls
               /\ RaceWrote(k, [race.p[k] EXCEPT !.pc = "sget", !.i = 0,
                                   !.dpl = NoDeployment, !.dv = 0], "dpl", TRUE)
          ELSE /\ dpls' = dpls
               /\ RaceConflict(k, [race.p[k] EXCEPT !.dpl = d], "uget",
                               "failed to add sidecars to Deployment")
    /\ UNCHANGED <<svc, cms>>
    /\ RaceFrame

\* the Get of tapSvc and of untapSvc, and the closure up to its Update
RaceSvcGet(k) ==
    /\ race.p[k].pc \in {"sget", "usget"}
    /\ IF race.p[k].pc = "usget"
       THEN RaceGoto(k, [race.p[k] EXCEPT !.pc = "usupdate",
                            !.s = untapSvcClosure(svc), !.sv = race.ver.svc])
       ELSE \E cl \in {tapSvcClosure(svc, race.p[k].port)} :
               IF cl.err # Nil
               THEN RaceGoto(k, [race.p[k] EXCEPT !.pc = "uget", !.i = 0,
                                    !.err = Wrap("failed to tap Service", cl.err)])
               ELSE RaceGoto(k, [race.p[k] EXCEPT !.pc = "supdate", !.s = cl.obj,
                                                  !.sv = race.ver.svc])
    /\ UNCHANGED <<svc, dpls, cms>>
    /\ RaceFrame

\* the Update of tapSvc: the tap returns nil when it is taken
RaceSvcUpdate(k) ==
    /\ race.p[k].pc = "supdate"
    /\ IF race.p[k].sv = race.ver.svc
       THEN /\ svc' = race.p[k].s
            /\ RaceWrote(k, [race.p[k] EXCEPT !.pc = "done", !.err = Nil], "svc",
                         race.p[k].s # svc)
       ELSE /\ svc' = svc
            /\ RaceConflict(k, [race.p[k] EXCEPT !.pc = "sget", !.s = <<>>,
                                                 !.sv = 0],
                            "uget", "failed to tap Service")
    /\ UNCHANGED <<dpls, cms>>
    /\ RaceFrame

\* the rollback, NewUntapCommand: hasNamespace and Services(namespace).Get
RaceUntapGet(k) ==
    /\ race.p[k].pc = "uget"
    /\ \E get \in {GetService(Cluster(svc, dpls, cms), "default", targetSvcName)} :
          IF get.err # Nil
          THEN RaceGoto(k, [race.p[k] EXCEPT !.pc = "done"])
          ELSE RaceGoto(k, [race.p[k] EXCEPT !.pc = "ulocate", !.dpl = NoDeployment,
                               !.dv = 0, !.s = <<>>, !.sv = 0, !.i = 0])
    /\ UNCHANGED <<svc, dpls, cms>>
    /\ RaceFrame

\* the Get of the loop of untap on the Deployment
RaceUntapDplGet(k) ==
    /\ race.p[k].pc = "udget"
    /\ \E at \in {IndexOf(dpls, race.p[k].name, "default")} :
          IF at = {}
          THEN RaceGoto(k, [race.p[k] EXCEPT !.pc = "done"])
          ELSE RaceGoto(k, [race.p[k] EXCEPT !.pc = "udupdate",
                               !.dpl = dpls[Min(at)], !.dv = race.ver.dpl])
    /\ UNCHANGED <<svc, dpls, cms>>
    /\ RaceFrame

\* its Update: every kubetap container and volume removed
RaceUntapDplUpdate(k) ==
    /\ race.p[k].pc = "udupdate"
    /\ \E d \in {untapDeploymentClosure(race.p[k].dpl)} :
          IF race.p[k].dv = race.ver.dpl
          THEN /\ dpls' = UpdateDeployment(Cluster(svc, dpls, cms), d).dpls
               /\ RaceWrote(k, [race.p[k] EXCEPT !.pc = "usget", !.i = 0,
                                   !.dpl = NoDeployment, !.dv = 0], "dpl",
                            d # race.p[k].dpl)
          ELSE /\ dpls' = dpls
               /\ RaceConflict(k, [race.p[k] EXCEPT !.pc = "udget",
                                      !.dpl = NoDeployment, !.dv = 0],
                               "done", "")
    /\ UNCHANGED <<svc, cms>>
    /\ RaceFrame

\* the Update of untapSvc; the tap returns the error that made it roll back
RaceUntapSvcUpdate(k) ==
    /\ race.p[k].pc = "usupdate"
    /\ IF race.p[k].sv = race.ver.svc
       THEN /\ svc' = race.p[k].s
            /\ RaceWrote(k, [race.p[k] EXCEPT !.pc = "done"], "svc",
                         race.p[k].s # svc)
       ELSE /\ svc' = svc
            /\ RaceConflict(k, [race.p[k] EXCEPT !.pc = "usget", !.s = <<>>,
                                                 !.sv = 0],
                            "done", "")
    /\ UNCHANGED <<dpls, cms>>
    /\ RaceFrame

NextRace ==
    \/ \E k \in Procs : RaceGet(k)
    \/ \E k \in Procs : RaceLocate(k)
    \/ \E k \in Procs : RaceCreate(k)
    \/ \E k \in Procs : RaceConfigMapList(k)
    \/ \E k \in Procs : RaceConfigMapDelete(k)
    \/ \E k \in Procs : RaceList(k)
    \/ \E k \in Procs : RaceUpdate(k)
    \/ \E k \in Procs : RaceSvcGet(k)
    \/ \E k \in Procs : RaceSvcUpdate(k)
    \/ \E k \in Procs : RaceUntapGet(k)
    \/ \E k \in Procs : RaceUntapDplGet(k)
    \/ \E k \in Procs : RaceUntapDplUpdate(k)
    \/ \E k \in Procs : RaceUntapSvcUpdate(k)

SpecRace == InitRace /\ [][NextRace]_vars

(***************************************************************************)
(* What the properties below speak of.                                     *)
(***************************************************************************)
IsTapped(s) == MapGet(s.anns, annotationOriginalTargetPort) # ""

WriteCalls == {"cm.create", "cm.delete", "dpl.update", "svc.update"}

NoWrites(calls) == \A i \in 1..Len(calls) : calls[i] \notin WriteCalls

Now == Cluster(svc, dpls, cms)

\* the Deployments the labels of which satisfy the selector of the Service
MatchingDeployments(c) ==
    {i \in 1..Len(c.dpls) :
        /\ c.dpls[i].namespace = c.svc.namespace
        /\ \A k \in DOMAIN c.svc.selector :
              k \in DOMAIN c.dpls[i].labels
              /\ c.dpls[i].labels[k] = c.svc.selector[k]}

ResolvesOne(c) ==
    DOMAIN c.svc.selector # {} /\ Cardinality(MatchingDeployments(c)) = 1

TheDeployment(c) == c.dpls[CHOOSE i \in MatchingDeployments(c) : TRUE]

KubetapContainers(d) ==
    SelectSeq(d.containers, LAMBDA x : x.name = kubetapContainerName)

KubetapVolumes(d) ==
    SelectSeq(d.volumes, LAMBDA v : HasPrefix(v.name, kubetapContainerName))

PortEntries(s, p) == {i \in 1..Len(s.ports) : s.ports[i].port = p}

\* the command names the namespace of sample-service
InServiceNamespace(a) == a.namespace \in {"", "default"}

\* a tap that gets as far as fetching the Service
WellFormedTap(a) ==
    /\ a.port # 0
    /\ InServiceNamespace(a)
    /\ ~(a.image = defaultImageHTTP
         /\ a.protocol \in {protocolTCP, protocolUDP, protocolGRPC})

(***************************************************************************)
(* C1: round trip.  A tap of an untapped Service that succeeds, followed   *)
(* at once by an untap that succeeds, leaves the port list and the         *)
(* annotations of the Service as they were before the tap, with no         *)
(* original-port annotation and no kubetap-web entry.  The code does not   *)
(* keep this for a Service with another entry that targets port 7777.      *)
(***************************************************************************)
C1_RoundTripRestoresService ==
    rt.phase = "untapped" =>
        /\ svc.ports = rt.svc0.ports
        /\ svc.anns = rt.svc0.anns
        /\ ~IsTapped(svc)
        /\ \A i \in 1..Len(svc.ports) : svc.ports[i].name # kubetapServicePortName

(***************************************************************************)
(* C2: a tap on a Service that carries the original-port annotation makes  *)
(* no write (no ConfigMap created or deleted, Deployment and Service as    *)
(* they were, no rollback), and a tap that names a port, the namespace of  *)
(* the Service and a supported mode returns ErrServiceTapped.              *)
(***************************************************************************)
C2_TapOnTappedRefused ==
    (last.op = "tap" /\ IsTapped(last.pre.svc)) =>
        /\ NoWrites(last.calls)
        /\ ~last.rb.ran
        /\ Now = last.pre
        /\ WellFormedTap(last.args) => last.err = ErrServiceTapped

C2_Witness ==
    /\ last.op = "tap"
    /\ IsTapped(last.pre.svc)
    /\ last.err = ErrServiceTapped
    /\ ResolvesOne(Now)
    /\ Len(TheDeployment(Now).containers) = 2
    /\ Len(cms) = 1

(***************************************************************************)
(* C3: an untap of a Service that is not tapped and whose selector         *)
(* resolves to exactly one Deployment returns no error and leaves the      *)
(* port list and the annotations of the Service unchanged.  The code does  *)
(* not keep this for a Service with an entry that targets port 7777.       *)
(***************************************************************************)
C3_UntapOfUntappedIsNoOp ==
    (/\ last.op = "untap"
     /\ last.flt = {}
     /\ InServiceNamespace(last.args)
     /\ ~IsTapped(last.pre.svc)
     /\ ResolvesOne(last.pre)) =>
        /\ last.err = Nil
        /\ svc.ports = last.pre.svc.ports
        /\ svc.anns = last.pre.svc.anns

(***************************************************************************)
(* C4: after a tap that succeeds (the Service was not tapped and its       *)
(* selector matches exactly one Deployment) the pod template holds the     *)
(* containers it had followed by one container named kubetap with at       *)
(* least two ports; a ConfigMap named for the target exists with a         *)
(* non-empty config.yaml; the Service carries the original-port            *)
(* annotation, equal to the string form of the target the tapped entry     *)
(* had, has one more entry, for port 2244, and its tapped entry targets    *)
(* port 7777.                                                              *)
(***************************************************************************)
C4_TapPostconditions ==
    (last.op = "tap" /\ last.err = Nil) =>
        /\ ~IsTapped(last.pre.svc)
        /\ ResolvesOne(last.pre)
        /\ ResolvesOne(Now)
        /\ LET d0 == TheDeployment(last.pre)
               d1 == TheDeployment(Now)
               n == Len(d0.containers)
               p0 == last.pre.svc.ports
               e == PortEntries(last.pre.svc, last.args.port)
           IN  /\ Len(d1.containers) = n + 1
               /\ SubSeq(d1.containers, 1, n) = d0.containers
               /\ d1.containers[n + 1].name = kubetapContainerName
               /\ Len(d1.containers[n + 1].ports) >= 2
               /\ \E m \in 1..Len(cms) :
                     /\ cms[m].name = kubetapConfigMapPrefix \o d1.name
                     /\ cms[m].namespace = svc.namespace
                     /\ mitmproxyConfigFile \in DOMAIN cms[m].data
                     /\ Len(cms[m].data[mitmproxyConfigFile]) > 0
               /\ e # {}
               /\ \A i \in e :
                     /\ MapGet(svc.anns, annotationOriginalTargetPort) =
                           IF p0[i].targetPort.type = "Int"
                           THEN Itoa(p0[i].targetPort.intVal)
                           ELSE p0[i].targetPort.strVal
                     /\ svc.ports[i].port = last.args.port
                     /\ svc.ports[i].targetPort = FromInt(7777)
               /\ Len(svc.ports) = Len(p0) + 1
               /\ svc.ports[Len(p0) + 1].port = 2244
               /\ \A i \in (1..Len(p0)) \ e : svc.ports[i] = p0[i]

C4_Witness ==
    /\ last.op = "tap"
    /\ last.err = Nil
    /\ MapGet(svc.anns, annotationOriginalTargetPort) = "8080"
    /\ Len(svc.ports) = 2
    /\ Len(cms) = 1
    /\ Len(TheDeployment(Now).containers) = 2

(***************************************************************************)
(* C5: between commands, whatever taps and untaps have run (also taps      *)
(* that failed and were rolled back, and taps run after a rollback that    *)
(* failed), a pod template holds at most one container named kubetap, and  *)
(* while its Service is tapped exactly one, with exactly two volumes of    *)
(* the kubetap prefix, one backed by the ConfigMap and one empty-dir.      *)
(* The code does not keep this.                                            *)
(***************************************************************************)
C5_OneSidecarInvariant ==
    \A i \in 1..Len(dpls) :
        /\ Len(KubetapContainers(dpls[i])) <= 1
        /\ (IsTapped(svc) /\ i \in MatchingDeployments(Now)) =>
              /\ Len(KubetapContainers(dpls[i])) = 1
              /\ Len(KubetapVolumes(dpls[i])) = 2
              /\ \E v, w \in 1..2 :
                    /\ KubetapVolumes(dpls[i])[v].kind = "ConfigMap"
                    /\ KubetapVolumes(dpls[i])[w].kind = "EmptyDir"

(***************************************************************************)
(* C6: the injection of the sidecar refuses with ErrServiceTapped and      *)
(* appends no container and no volume when the pod template already holds  *)
(* a container named kubetap, also when the Service carries no             *)
(* original-port annotation.  The code has no such check.                  *)
(***************************************************************************)
C6_InjectionRefusesSecondSidecar ==
    (/\ last.op = "tap"
     /\ WellFormedTap(last.args)
     /\ last.flt = {}
     /\ ~IsTapped(last.pre.svc)
     /\ ResolvesOne(last.pre)
     /\ Len(KubetapContainers(TheDeployment(last.pre))) >= 1) =>
        /\ ErrorsIs(last.err, ErrServiceTapped)
        /\ Len(TheDeployment(Now).containers) <= Len(TheDeployment(last.pre).containers)
        /\ Len(TheDeployment(Now).volumes) <= Len(TheDeployment(last.pre).volumes)

(***************************************************************************)
(* C7: selector resolution.  With an empty selector the locator fails      *)
(* with ErrSelectorsMissing and makes no query; otherwise it makes one     *)
(* query and returns ErrServiceSelectorNoMatch when no Deployment of the   *)
(* namespace carries every pair of the selector, that Deployment when      *)
(* exactly one does, ErrServiceSelectorMultiMatch when two or more do.     *)
(* A tap or an untap that reaches the locator and finds it failing         *)
(* returns an error of that kind and writes nothing.                       *)
(***************************************************************************)
LocatorKind(c) ==
    IF DOMAIN c.svc.selector = {} THEN ErrSelectorsMissing
    ELSE IF MatchingDeployments(c) = {} THEN ErrServiceSelectorNoMatch
    ELSE IF Cardinality(MatchingDeployments(c)) = 1 THEN Nil
    ELSE ErrServiceSelectorMultiMatch

ReachesLocator ==
    \/ last.op = "tap" /\ WellFormedTap(last.args) /\ ~IsTapped(last.pre.svc)
    \/ last.op = "untap" /\ InServiceNamespace(last.args)

C7_SelectorResolution ==
    /\ LET r == deploymentFromSelectors(Now, svc.namespace, svc.selector)
       IN  /\ r.err = LocatorKind(Now)
           /\ r.calls = IF DOMAIN svc.selector = {} THEN <<>> ELSE <<"dpl.list">>
           /\ r.err = Nil => r.dpl = TheDeployment(Now)
    /\ (ReachesLocator /\ LocatorKind(last.pre) # Nil) =>
           /\ ErrorsIs(last.err, LocatorKind(last.pre))
           /\ Now = last.pre
           /\ NoWrites(last.calls)
           /\ ~last.rb.ran
           /\ DOMAIN last.pre.svc.selector = {} =>
                 \A i \in 1..Len(last.calls) : last.calls[i] # "dpl.list"

C7_Witness ==
    /\ last.op = "tap"
    /\ ErrorsIs(last.err, ErrServiceSelectorMultiMatch)
    /\ Cardinality(MatchingDeployments(Now)) = 2
    /\ DOMAIN svc.selector = {"app", "tier"}

(***************************************************************************)
(* C8: upstream port resolution in tap.  When the target of the tapped     *)
(* entry is numeric the upstream port is that number and the port          *)
(* resolution looks up no Deployment (the tap lists Deployments only for   *)
(* the target and for the injection); when it is named the upstream port   *)
(* is the container port of the backing Deployment with that name, and     *)
(* with no such container port tap returns ErrDeploymentMissingPorts       *)
(* before any write.                                                       *)
(***************************************************************************)
DplLists(calls) == Len(SelectSeq(calls, LAMBDA x : x = "dpl.list"))

NamedContainerPorts(d, name) ==
    {d.containers[i].ports[j].containerPort :
        <<i, j>> \in {x \in (1..Len(d.containers)) \X (1..2) :
                        /\ x[2] <= Len(d.containers[x[1]].ports)
                        /\ d.containers[x[1]].ports[x[2]].name = name}}

C9_MissingPortError ==
    (/\ last.op = "tap"
     /\ WellFormedTap(last.args)
     /\ last.args.protocol = protocolHTTP
     /\ last.flt = {}
     /\ ~IsTapped(last.pre.svc)
     /\ PortEntries(last.pre.svc, last.args.port) = {}) =>
        /\ ErrorsIs(last.err, ErrServiceMissingPort)
        /\ ~IsTapped(svc)

(***************************************************************************)
(* C10: when the swap of the Service fails after the sidecar was injected  *)
(* tap runs untap before it returns and returns the error of the swap,     *)
(* whatever the rollback returned; when no API call of the rollback fails  *)
(* the Deployment holds no sidecar and the ConfigMap of the target is      *)
(* gone when tap returns.                                                  *)
(***************************************************************************)
SwapFailed ==
    /\ last.op = "tap"
    /\ last.err # Nil
    /\ \E i \in 1..(Len(last.calls) - 1) :
          last.calls[i] = "dpl.update" /\ last.calls[i + 1] = "svc.get"

RollbackFaults == {"rb.cm.delete", "rb.dpl.update", "rb.svc.update"}

C10_SwapFailureRollsBack ==
    SwapFailed =>
        /\ last.rb.ran
        /\ Len(last.rb.calls) >= 3
        /\ SubSeq(last.rb.calls, 1, 3) = <<"ns.list", "svc.get", "dpl.list">>
        /\ last.err = Wrap("failed to tap Service",
                           IF PortEntries(last.pre.svc, last.args.port) = {}
                           THEN ErrServiceMissingPort
                           ELSE IF last.fk # "error" THEN ErrConflict
                           ELSE ErrAPI)
        /\ (last.flt \cap RollbackFaults = {}) =>
              /\ last.rb.err = Nil
              /\ KubetapContainers(TheDeployment(Now)) = <<>>
              /\ \A m \in 1..Len(cms) :
                    MapGet(cms[m].anns, annotationConfigMap) #
                        configMapAnnotationPrefix \o TheDeployment(Now).name

C10_Witness ==
    /\ SwapFailed
    /\ "svc.update" \in last.flt
    /\ last.rb.err = Nil
    /\ cms = <<>>
    /\ Len(TheDeployment(Now).containers) = 1

(***************************************************************************)
(* C11: a tap of an untapped Service that gets as far as the ConfigMap     *)
(* while a ConfigMap of the same target, left by an earlier run, exists:   *)
(* the first create fails, the stray ConfigMap is deleted and the create   *)
(* is made once more, two creates and one delete in all.  When neither     *)
(* call is made to fail the ConfigMap step succeeds, and a tap with no     *)
(* failing call succeeds; after a tap that succeeded exactly one ConfigMap *)
(* of the target exists and its payload is the configuration built in      *)
(* this run.  When the second create fails tap returns its error and runs  *)
(* no rollback.                                                            *)
(***************************************************************************)
\* the ConfigMaps of c that carry the proxy-config annotation of d
ConfigMapsOf(c, d) ==
    {m \in 1..Len(c.cms) :
        /\ c.cms[m].namespace = d.namespace
        /\ MapGet(c.cms[m].anns, annotationConfigMap)
               = configMapAnnotationPrefix \o d.name}

ConfigMapCalls(calls) ==
    SelectSeq(calls, LAMBDA x : x \in {"cm.create", "cm.list", "cm.delete"})

Called(calls, x) == \E i \in 1..Len(calls) : calls[i] = x

\* the payload createMitmproxyConfigMap builds for the last tap
BuiltConfig ==
    mitmproxyBaseConfig
        \o (IF last.args.https THEN "mode: reverse:https://127.0.0.1:"
            ELSE "mode: reverse:http://127.0.0.1:")
        \o last.UpstreamPort

StrayAtTap ==
    /\ last.op = "tap"
    /\ ~IsTapped(last.pre.svc)
    /\ ResolvesOne(last.pre)
    /\ \E m \in ConfigMapsOf(last.pre, TheDeployment(last.pre)) :
          last.pre.cms[m].name
              = kubetapConfigMapPrefix \o TheDeployment(last.pre).name
    /\ Called(last.calls, "cm.create")

DestroyTargets == {"", "sample-deployment", "two"}

UntapAtConfigMap ==
    /\ last.op = "untap"
    /\ InServiceNamespace(last.args)
    /\ ResolvesOne(last.pre)

\* the Updates of the last command all succeed, at once or on a retry
UpdatesSucceed ==
    \/ last.flt \cap {"dpl.update", "svc.update"} = {}
    \/ last.fk = "conflict1"

C13_UntapToleratesNoConfigMap ==
    UntapAtConfigMap =>
        LET match == ConfigMapsOf(last.pre, TheDeployment(last.pre))
        IN  /\ match = {} =>
                  /\ ConfigMapCalls(last.calls) = <<"cm.list">>
                  /\ cms = last.pre.cms
            /\ (match # {} /\ "cm.delete" \in last.flt) =>
                  /\ last.err = ErrAPI
                  /\ ~Called(last.calls, "dpl.get")
                  /\ ~Called(last.calls, "svc.update")
                  /\ Now = last.pre
            /\ (match = {} \/ "cm.delete" \notin last.flt) =>
                  /\ Called(last.calls, "dpl.get")
                  /\ UpdatesSucceed =>
                        /\ last.err = Nil
                        /\ KubetapContainers(TheDeployment(Now)) = <<>>
                        /\ KubetapVolumes(TheDeployment(Now)) = <<>>
                        /\ ~IsTapped(svc)

C13_Witness ==
    /\ UntapAtConfigMap
    /\ IsTapped(last.pre.svc)
    /\ last.pre.cms = <<>>
    /\ last.err = Nil
    /\ ~IsTapped(svc)
    /\ Called(last.calls, "svc.update")

(***************************************************************************)
(* C14: namespaces.  A tap that names a port, an untap and a list run      *)
(* with a namespace that is not in the cluster return ErrNamespaceNotExist *)
(* and no command run with such a namespace writes anything.  A tap or an  *)
(* untap with the namespace left unset does what the same command does     *)
(* with namespace default.  The rollback of a tap whose namespace was      *)
(* left unset acts on namespace default: when none of its calls fails it   *)
(* returns no error and the Deployment of the Service holds no sidecar.    *)
(***************************************************************************)
C14_Namespaces ==
    /\ (last.op \in {"tap", "untap", "list"}
        /\ last.args.namespace \notin Namespaces \cup {""}) =>
           /\ (last.op = "tap" => last.args.port # 0) =>
                 last.err = ErrNamespaceNotExist
           /\ NoWrites(last.calls)
           /\ ~last.rb.ran
           /\ Now = last.pre
    /\ (last.op = "tap" /\ last.args.namespace = "") =>
           LET r == NewTapCommand(last.pre, targetSvcName,
                                  [last.args EXCEPT !.namespace = "default"],
                                  last.flt, last.fk)
           IN  /\ r.c = Now /\ r.err = last.err /\ r.calls = last.calls
               /\ r.rb = last.rb
               /\ (last.rb.ran /\ last.flt \cap RollbackFaults = {}) =>
                     /\ last.rb.err = Nil
                     /\ SubSeq(last.rb.calls, 1, 3)
                            = <<"ns.list", "svc.get", "dpl.list">>
                     /\ KubetapContainers(TheDeployment(Now)) = <<>>
    /\ (last.op = "untap" /\ last.args.namespace = "") =>
           LET r == NewUntapCommand(last.pre, "default", targetSvcName, "",
                                    last.flt, last.fk)
           IN  r.c = Now /\ r.err = last.err /\ r.calls = last.calls

C14_Witness ==
    /\ last.op = "tap"
    /\ last.args.namespace = ""
    /\ last.rb.ran
    /\ last.rb.err = Nil
    /\ "svc.update" \in last.flt
    /\ svc.namespace = "default"
    /\ KubetapContainers(TheDeployment(Now)) = <<>>

(***************************************************************************)
(* C17: a tap that names a port and a namespace of the cluster with        *)
(* protocol tcp, udp or grpc, whatever the image, returns the "not         *)
(* supported" error, writes nothing and never calls a proxy that was not   *)
(* set.  The code returns that error only when the image is the default    *)
(* one; with another image it goes on and calls ReadyEnv of a proxy that   *)
(* is nil.                                                                 *)
(***************************************************************************)
C17_UnsupportedProtocol ==
    (/\ last.op = "tap"
     /\ last.args.port # 0
     /\ last.args.namespace \in Namespaces \cup {""}
     /\ last.args.protocol \in {protocolTCP, protocolUDP, protocolGRPC}) =>
        /\ last.err = <<"mode is currently not supported">>
        /\ NoWrites(last.calls)
        /\ Now = last.pre

(***************************************************************************)
(* C19: the conflict-retry loops (Deployment update of tap and of untap,   *)
(* Service swap, Service restore; in a command and in the rollback of a    *)
(* tap).  A loop makes at most RetrySteps = 5 Updates; it makes a second   *)
(* one only after a conflict: an Update that fails otherwise is not        *)
(* repeated, and ErrServiceMissingPort and ErrServiceTapped raised inside  *)
(* the loop of tapSvc end it after one Get, with no Update.  After five    *)
(* conflicts the command returns the conflict wrapped in a "failed to      *)
(* ..." error.                                                             *)
(***************************************************************************)
Count(calls, x) == Len(SelectSeq(calls, LAMBDA y : y = x))

UpdateCalls == {"dpl.update", "svc.update"}

\* one run of a handler: its calls, its error, the Updates made to fail
RetryBounded(calls, err, failing, fk) ==
    \A x \in UpdateCalls :
        /\ Count(calls, x) <= RetrySteps
        /\ (x \notin failing \/ fk = "error") => Count(calls, x) <= 1
        /\ (x \in failing /\ fk = "error") =>
              /\ Count(calls, x) = 1 => (Len(err) = 2 /\ ErrorsIs(err, ErrAPI))
        /\ Count(calls, x) = RetrySteps =>
              /\ fk # "error"
              /\ Len(err) = 2
              /\ ErrorsIs(err, ErrConflict)

C19_RetryLoopsBounded ==
    /\ last.op \in {"tap", "untap"} =>
          /\ RetryBounded(last.calls, last.err, last.flt, last.fk)
          /\ RetryBounded(last.rb.calls, last.rb.err,
                          {x \in UpdateCalls : ("rb." \o x) \in last.flt},
                          last.fk)
    \* ErrServiceMissingPort inside the loop of tapSvc
    /\ (last.op = "tap" /\ ErrorsIs(last.err, ErrServiceMissingPort)) =>
          /\ last.err = Wrap("failed to tap Service", ErrServiceMissingPort)
          /\ Count(last.calls, "svc.get") = 2
          /\ Count(last.calls, "svc.update") = 0
    \* ErrServiceTapped inside the loop of tapSvc
    /\ IsTapped(svc) =>
          \* whether the Update would succeed or fail, and however it fails
          \A f \in {[failing |-> FALSE, fk |-> "error"]} \cup
                    {[failing |-> TRUE, fk |-> k] :
                        k \in {"error", "conflict", "conflict1"}} :
              LET r == tapSvc(Now, svc.namespace, svc.name, 80, f.failing, f.fk)
              IN  /\ r.err = Wrap("failed to tap Service", ErrServiceTapped)
                  /\ r.calls = <<"svc.get">>
                  /\ r.c = Now

C19_Witness ==
    /\ last.op = "tap"
    /\ last.fk = "conflict"
    /\ Count(last.calls, "svc.update") = RetrySteps
    /\ last.err = Wrap("failed to tap Service", ErrConflict)
    /\ last.rb.ran
    /\ Count(last.rb.calls, "dpl.update") = RetrySteps
    /\ last.rb.err
           = Wrap("failed to remove sidecars from Deployment", ErrConflict)

(***************************************************************************)
(* C18: in every conflict-retry loop each attempt, the retries included,   *)
(* reads the object from the cluster just before it writes it, so that     *)
(* one write of another client between the read and the Update is made     *)
(* good by the retry: the command does not fail with a conflict.  The      *)
(* loops of untap, of the Service swap and of the Service restore do       *)
(* this; the loop of tap's Deployment update writes, in every attempt,     *)
(* the object that was listed once before the loop.                        *)
(***************************************************************************)
ReadsBeforeEveryUpdate(calls) ==
    \A i \in 1..Len(calls) :
        /\ calls[i] = "dpl.update" =>
              i > 1 /\ calls[i - 1] \in {"dpl.get", "dpl.list"}
        /\ calls[i] = "svc.update" => i > 1 /\ calls[i - 1] = "svc.get"

C18_RetryRereads ==
    last.op \in {"tap", "untap"} =>
        /\ ReadsBeforeEveryUpdate(last.calls)
        /\ ReadsBeforeEveryUpdate(last.rb.calls)
        /\ last.fk = "conflict1" =>
              /\ ~ErrorsIs(last.err, ErrConflict)
              /\ ~ErrorsIs(last.rb.err, ErrConflict)

(***************************************************************************)
(* C20: an untap (the command, or the rollback of a tap) updates the       *)
(* Deployment first, then the Service, and deletes the ConfigMap last:     *)
(* a delete of the ConfigMap comes after the Updates of both, and when an  *)
(* untap has deleted the ConfigMap of the target the pod template holds    *)
(* no kubetap container and no entry of the Service targets port 7777.     *)
(* The code deletes the ConfigMap first.                                   *)
(***************************************************************************)
DeleteComesLast(calls) ==
    \A i \in 1..Len(calls) :
        calls[i] = "cm.delete" =>
            /\ \E j \in 1..(i - 1) : calls[j] = "dpl.update"
            /\ \E j \in 1..(i - 1) : calls[j] = "svc.update"

TargetsProxy(s) ==
    \E i \in 1..Len(s.ports) :
        s.ports[i].targetPort = FromInt(kubetapProxyListenPort)

C20_UntapOrder ==
    (last.op = "untap" /\ ResolvesOne(last.pre)) =>
        /\ DeleteComesLast(last.calls)
        /\ (/\ ConfigMapsOf(last.pre, TheDeployment(last.pre)) # {}
            /\ ConfigMapsOf(Now, TheDeployment(Now)) = {}) =>
               /\ KubetapContainers(TheDeployment(Now)) = <<>>
               /\ ~TargetsProxy(svc)

(***************************************************************************)
(* C15: when an interrupt or termination signal is received while tap is   *)
(* in interactive mode, the signal listener stops the port-forward,        *)
(* invokes untap for the same Service and then exits the process: a        *)
(* process that received a signal ends by the listener, after the          *)
(* listener's untap of the Service in the tap's namespace, and when no     *)
(* call of that untap failed the Service is no longer tapped.  The code    *)
(* does not keep this: the main flow can end the process first.            *)
(***************************************************************************)
C15_InterruptUntaps ==
    (ia.pc = "exited" /\ ia.sigs > 0) =>
        /\ ia.how = "listener"
        /\ ia.lis = "untapped"
        /\ last.op = "untap"
        /\ last.args.namespace = ia.ns
        /\ (last.flt = {} => ~IsTapped(svc))

(***************************************************************************)
(* C16: when the readiness loop has run its 90 cycles without seeing the   *)
(* Pod ready (and no signal reached the process), the process ends by the  *)
(* timeout report and no untap was invoked: the cluster is as the tap      *)
(* left it, the Service annotated and its entry targeting the proxy, the   *)
(* sidecar in the pod template and the ConfigMap present.                  *)
(***************************************************************************)
C16_TimeoutLeavesTap ==
    (/\ ia.pc = "exited"
     /\ ia.sigs = 0
     /\ ia.i = interactiveTimeoutSeconds
     /\ ~ia.ready) =>
        /\ ia.how = "timeout"
        /\ ia.lis = "idle"
        /\ last.op = "tap"
        /\ last.err = Nil
        /\ IsTapped(svc)
        /\ \E i \in 1..Len(svc.ports) :
              /\ svc.ports[i].port = last.args.port
              /\ svc.ports[i].targetPort = FromInt(kubetapProxyListenPort)
        /\ ResolvesOne(Now)
        /\ LET d == TheDeployment(Now)
           IN  /\ \E k \in 1..Len(d.containers) :
                     d.containers[k].name = kubetapContainerName
               /\ \E m \in 1..Len(cms) :
                     /\ cms[m].name = kubetapConfigMapPrefix \o d.name
                     /\ cms[m].namespace = svc.namespace

C16_Witness ==
    /\ ia.pc = "exited"
    /\ ia.how = "timeout"
    /\ ia.sigs = 0
    /\ ia.i = interactiveTimeoutSeconds
    /\ IsTapped(svc)

(***************************************************************************)
(* C21: tap writes in the order ConfigMap, Deployment, Service.  For a     *)
(* tap of a Service no entry of which targeted port 7777 before it: the    *)
(* writes to the ConfigMap come before the Updates of the Deployment,      *)
(* these before the Updates of the Service, an Update of the Service is    *)
(* made only after an Update of the Deployment and a create of the         *)
(* ConfigMap, and in the cluster as every stage of the tap (its rollback   *)
(* included) leaves it and as the tap leaves it, an entry of the Service   *)
(* targets port 7777 only if the pod template of the Deployment holds the  *)
(* kubetap container and the ConfigMap of the target exists.               *)
(***************************************************************************)
StageOf(call) ==
    IF call \in {"cm.create", "cm.delete"} THEN 1
    ELSE IF call = "dpl.update" THEN 2
    ELSE IF call = "svc.update" THEN 3
    ELSE 0

WritesInOrder(calls) ==
    /\ \A i \in 1..Len(calls) : \A j \in i..Len(calls) :
          (StageOf(calls[i]) # 0 /\ StageOf(calls[j]) # 0) =>
              StageOf(calls[i]) <= StageOf(calls[j])
    /\ Called(calls, "svc.update") => Called(calls, "dpl.update")
    /\ Called(calls, "dpl.update") => Called(calls, "cm.create")

ProxyInPlace(c) ==
    TargetsProxy(c.svc) =>
        /\ ResolvesOne(c)
        /\ Len(KubetapContainers(TheDeployment(c))) >= 1
        /\ \E m \in 1..Len(c.cms) :
              /\ c.cms[m].name = kubetapConfigMapPrefix \o TheDeployment(c).name
              /\ c.cms[m].namespace = c.svc.namespace

C21_TapOrder ==
    (last.op = "tap" /\ ~TargetsProxy(last.pre.svc)) =>
        /\ WritesInOrder(last.calls)
        /\ \A k \in 1..Len(last.steps) : ProxyInPlace(last.steps[k])
        /\ ProxyInPlace(Now)

C21_Witness ==
    /\ last.op = "tap"
    /\ last.err = Nil
    /\ ~TargetsProxy(last.pre.svc)
    /\ Len(last.steps) = 3
    /\ ~TargetsProxy(last.steps[2].svc)
    /\ TargetsProxy(last.steps[3].svc)
    /\ Called(last.calls, "cm.delete")


(***************************************************************************)
(* C22: tap checks the requested port against the ports of the Service     *)
(* before any write: a tap of a Service with no entry of the requested     *)
(* number creates no ConfigMap and updates no Deployment.  The code makes  *)
(* the check in tapSvc, its last stage.                                    *)
(***************************************************************************)
C22_PortCheckedBeforeWrites ==
    (last.op = "tap" /\ PortEntries(last.pre.svc, last.args.port) = {}) =>
        /\ ~Called(last.calls, "cm.create")
        /\ ~Called(last.calls, "dpl.update")
        /\ \A k \in 1..Len(last.steps) :
              /\ last.steps[k].cms = last.pre.cms
              /\ last.steps[k].dpls = last.pre.dpls


(***************************************************************************)
(* C23: when the environment preparation fails (the create of the          *)
(* ConfigMap fails, and after the one delete the second create fails       *)
(* too), tap returns the error of the second create, has made no Update    *)
(* of the Deployment or of the Service, both of which are as before the    *)
(* tap, and runs no rollback.                                              *)
(***************************************************************************)
EnvFailed ==
    /\ last.op = "tap"
    /\ Len(last.calls) > 0
    /\ last.calls[Len(last.calls)] = "cm.create"

C23_EnvFailureWritesNothing ==
    EnvFailed =>
        /\ Count(last.calls, "cm.create") = 2
        /\ last.err = IF "cm.create" \in last.flt THEN ErrAPI ELSE ErrAlreadyExists
        /\ ~Called(last.calls, "dpl.update")
        /\ ~Called(last.calls, "svc.update")
        /\ ~last.rb.ran
        /\ last.rb.calls = <<>>
        /\ svc = last.pre.svc
        /\ dpls = last.pre.dpls
        /\ \A k \in 1..Len(last.steps) :
              /\ last.steps[k].svc = last.pre.svc
              /\ last.steps[k].dpls = last.pre.dpls

C23_Witness ==
    /\ EnvFailed
    /\ last.err = ErrAlreadyExists
    /\ Called(last.calls, "cm.delete")
    /\ Len(cms) = 1


(***************************************************************************)
(* C24: untap restores the entries of a Service that tap tapped.  After a  *)
(* tap that succeeded and the untap that follows it and succeeds, every    *)
(* entry the Service had before the tap (an entry of the user named        *)
(* kubetap-web aside) is there with its port number, with the target port  *)
(* it had, of the same kind (numeric or named), and with the name it had:  *)
(* the tapped entry gets back its target and its name, and the target and  *)
(* the name of no other entry are changed.  The code does not keep this    *)
(* for another entry that targets port 7777.                               *)
(***************************************************************************)
Restored(before, after) ==
    \A i \in 1..Len(before.ports) :
        before.ports[i].name # kubetapServicePortName =>
            \E j \in 1..Len(after.ports) :
                /\ after.ports[j].port = before.ports[i].port
                /\ after.ports[j].targetPort.type = before.ports[i].targetPort.type
                /\ after.ports[j].targetPort = before.ports[i].targetPort
                /\ after.ports[j].name = before.ports[i].name

C24_UntapRestoresEntries ==
    (/\ last.op = "untap"
     /\ last.err = Nil
     /\ rt.phase = "untapped") =>
        Restored(rt.svc0, svc)


(***************************************************************************)
(* C25: a Service is tapped consistently.  A Service that has no entry     *)
(* named kubetap-web and no entry targeting port 7777 and is not tapped    *)
(* is consistent: it has the original-port annotation iff it has an entry  *)
(* named kubetap-web iff one of its entries targets port 7777 (and the     *)
(* stored original port is not 7777).  Every operation of the tool takes   *)
(* a consistent Service to a consistent Service, so every state reached    *)
(* from such a start is consistent; an operation changes the annotations   *)
(* of the Service only together with its port list; and a tap of a tapped  *)
(* Service leaves the Service, its stored original port included, as it    *)
(* is.                                                                     *)
(***************************************************************************)
HasWebEntry(s) ==
    \E i \in 1..Len(s.ports) : s.ports[i].name = kubetapServicePortName

TapConsistent(s) ==
    /\ IsTapped(s) <=> HasWebEntry(s)
    /\ HasWebEntry(s) <=> TargetsProxy(s)
    /\ MapGet(s.anns, annotationOriginalTargetPort)
           # IntstrString(FromInt(kubetapProxyListenPort))

C25_TappedConsistently ==
    /\ (~IsTapped(svc) /\ ~HasWebEntry(svc) /\ ~TargetsProxy(svc)) =>
           TapConsistent(svc)
    /\ [][/\ TapConsistent(svc) => TapConsistent(svc')
          /\ svc'.anns # svc.anns => svc'.ports # svc.ports
          /\ (IsTapped(svc) /\ last'.op = "tap") => svc' = svc]_vars

C25_Witness ==
    /\ last.op = "tap"
    /\ last.err = Nil
    /\ TapConsistent(last.pre.svc)
    /\ ~IsTapped(last.pre.svc)
    /\ IsTapped(svc)
    /\ HasWebEntry(svc)
    /\ TargetsProxy(svc)


(***************************************************************************)
(* C26: untap is idempotent.  After an untap that succeeded, an untap run  *)
(* at once (same namespace, no call failing) succeeds as well and leaves   *)
(* the Service, the Deployments and the ConfigMaps as the first untap      *)
(* left them.  The code does not keep this for a Service tapped on an      *)
(* entry whose own target was port 7777.                                   *)
(***************************************************************************)
SecondUntap ==
    NewUntapCommand(Now, last.args.namespace, targetSvcName, "", {}, "error")

C26_UntapIdempotent ==
    (last.op = "untap" /\ last.err = Nil) =>
        /\ SecondUntap.err = Nil
        /\ SecondUntap.c = Now


(***************************************************************************)
(* C27: what tap and untap change in the pod template.  A tap that         *)
(* succeeds leaves the containers and the volumes the Deployment had, in   *)
(* their order and unchanged, followed by one container and by two         *)
(* volumes, and leaves every other Deployment alone.  An untap that        *)
(* succeeds removes the containers named kubetap, the two volumes tap      *)
(* adds (the ConfigMap volume of the target and the data volume) and the   *)
(* tapped annotation of the pod template, and leaves every other           *)
(* container, volume and annotation and every other Deployment alone.  A   *)
(* tap followed by an untap leaves the container list and the volume list  *)
(* of every Deployment as they were before the tap.                        *)
(***************************************************************************)
TapAppends(d0, d1) ==
    LET n == Len(d0.containers)
        v == Len(d0.volumes)
    IN  /\ Len(d1.containers) = n + 1
        /\ SubSeq(d1.containers, 1, n) = d0.containers
        /\ Len(d1.volumes) = v + 2
        /\ SubSeq(d1.volumes, 1, v) = d0.volumes

UntapRemoves(d0, d1) ==
    /\ d1.containers
           = SelectSeq(d0.containers, LAMBDA k : k.name # kubetapContainerName)
    /\ d1.volumes
           = SelectSeq(d0.volumes, LAMBDA v :
                 v.name \notin {kubetapConfigMapPrefix \o d0.name,
                                mitmproxyDataVolName})
    /\ d1.tmplAnns = MapDelete(d0.tmplAnns, annotationIsTapped)
    /\ d1 = [d0 EXCEPT !.containers = d1.containers, !.volumes = d1.volumes,
                       !.tmplAnns = d1.tmplAnns]

C27_DeploymentFrame ==
    /\ (last.op = "tap" /\ last.err = Nil) =>
          /\ Len(dpls) = Len(last.pre.dpls)
          /\ \A i \in 1..Len(dpls) :
                IF i \in MatchingDeployments(last.pre)
                THEN TapAppends(last.pre.dpls[i], dpls[i])
                ELSE dpls[i] = last.pre.dpls[i]
    /\ (last.op = "untap" /\ last.err = Nil) =>
          /\ Len(dpls) = Len(last.pre.dpls)
          /\ \A i \in 1..Len(dpls) :
                IF i \in MatchingDeployments(last.pre)
                THEN UntapRemoves(last.pre.dpls[i], dpls[i])
                ELSE dpls[i] = last.pre.dpls[i]
    /\ rt.phase = "untapped" =>
          /\ Len(dpls) = Len(rt.dpls0)
          /\ \A i \in 1..Len(dpls) :
                /\ dpls[i].containers = rt.dpls0[i].containers
                /\ dpls[i].volumes = rt.dpls0[i].volumes


(***************************************************************************)
(* C28: an untap whose Deployment cannot be resolved (the Service has no   *)
(* selectors, or they match no Deployment of the namespace, or several)    *)
(* returns the error of the locator, unwrapped, makes no write call and    *)
(* leaves the Service, every Deployment and every ConfigMap as they were.  *)
(***************************************************************************)
UntapUnresolved ==
    /\ last.op = "untap"
    /\ InServiceNamespace(last.args)
    /\ ~ResolvesOne(last.pre)

C28_UntapLocatorError ==
    UntapUnresolved =>
        /\ last.err =
              IF DOMAIN last.pre.svc.selector = {} THEN ErrSelectorsMissing
              ELSE IF MatchingDeployments(last.pre) = {}
              THEN ErrServiceSelectorNoMatch
              ELSE ErrServiceSelectorMultiMatch
        /\ NoWrites(last.calls)
        /\ Now = last.pre

C28_Witness ==
    /\ UntapUnresolved
    /\ last.err = ErrServiceSelectorMultiMatch
    /\ Len(dpls) = 2


(***************************************************************************)
(* C29: the payload of the ConfigMap.  When the environment preparation    *)
(* of a tap has succeeded, the ConfigMap named for the target holds under  *)
(* config.yaml the base configuration followed by the one line             *)
(* "mode: reverse:<scheme>://127.0.0.1:<port>", the scheme https iff the   *)
(* upstream-HTTPS option is set, the port the resolved upstream port of    *)
(* the tapped entry (its numeric target before the tap, or the container   *)
(* port of that name), and that port is never empty.  The code creates     *)
(* the ConfigMap with an empty port when the Service has no entry of the   *)
(* requested number.                                                       *)
(***************************************************************************)
EnvReady ==
    /\ last.op = "tap"
    /\ Len(last.steps) >= 1
    /\ ~EnvFailed

UpstreamDirective(https, port) ==
    (IF https THEN "mode: reverse:https://127.0.0.1:"
     ELSE "mode: reverse:http://127.0.0.1:") \o port

C29_ConfigMapPayload ==
    EnvReady =>
        LET c == last.steps[1]
            d == TheDeployment(last.pre)
            e == PortEntries(last.pre.svc, last.args.port)
        IN  /\ \E m \in 1..Len(c.cms) :
                  /\ c.cms[m].name = kubetapConfigMapPrefix \o d.name
                  /\ c.cms[m].data[mitmproxyConfigFile]
                         = mitmproxyBaseConfig
                             \o UpstreamDirective(last.args.https, last.UpstreamPort)
            /\ last.UpstreamPort # ""
            /\ e # {}
            /\ \A i \in e :
                  LET t == last.pre.svc.ports[i].targetPort
                  IN  IF t.type = "Int" THEN last.UpstreamPort = Itoa(t.intVal)
                      ELSE \E n \in NamedContainerPorts(d, t.strVal) :
                              last.UpstreamPort = Itoa(n)


(***************************************************************************)
(* C30: the locator selects by the labels of the pod template.  For a      *)
(* command that reaches the locator with a Service that has selectors,     *)
(* the locator returns a Deployment iff exactly one Deployment of the      *)
(* namespace has pod-template labels that contain every selector pair,     *)
(* and returns that one, whatever the labels of the Deployment objects;    *)
(* when no pod template matches the command fails with the no-match        *)
(* error.  The code selects by the labels of the Deployment object.        *)
(***************************************************************************)
TemplateMatches(c) ==
    {i \in 1..Len(c.dpls) :
        /\ c.dpls[i].namespace = c.svc.namespace
        /\ \A k \in DOMAIN c.svc.selector :
              k \in DOMAIN c.dpls[i].tmplLabels
              /\ c.dpls[i].tmplLabels[k] = c.svc.selector[k]}

C30_LocatorByTemplateLabels ==
    (ReachesLocator /\ DOMAIN last.pre.svc.selector # {}) =>
        LET c == last.pre
            r == deploymentFromSelectors(c, c.svc.namespace, c.svc.selector)
            T == TemplateMatches(c)
        IN  /\ r.err = Nil <=> Cardinality(T) = 1
            /\ r.err = Nil => r.dpl = c.dpls[CHOOSE i \in T : TRUE]
            /\ T = {} => ErrorsIs(last.err, ErrServiceSelectorNoMatch)

(***************************************************************************)
(* C31: in interactive mode the port-forward is started only after a       *)
(* readiness check saw ContainersReady = True on the tapped Pod.  The      *)
(* flag ready is raised by a check that saw the Pod ready and by nothing   *)
(* else; the main flow leaves the readiness wait only with the flag        *)
(* raised, at the ceiling of 90 cycles, on a failed lookup, or because the *)
(* listener of an interrupt ended the process; of these only the first     *)
(* goes on to the port-forward.                                            *)
(***************************************************************************)
LookupErrors ==
    {ErrKubetapPodNoMatch, ErrAPI, ErrServiceSelectorNoMatch,
     ErrServiceSelectorMultiMatch}

LeavesWait ==
    (ia.pc = "wait" /\ ia'.pc # "wait") =>
        \/ ia.ready
        \/ /\ ia.i = interactiveTimeoutSeconds
           /\ ia'.pc = "exited" /\ ia'.how = "timeout"
        \/ /\ ia'.pc = "exited" /\ ia'.how = "error"
           /\ \E e \in LookupErrors : ErrorsIs(ia'.err, e)
        \/ /\ ia'.pc = "exited" /\ ia'.how = "listener"
           /\ ia.sigs > 0 /\ ia.lis = "untapped"

C31_ForwardOnlyWhenReady ==
    /\ [](ia.pc \in {"forward", "halt"} => ia.ready)
    /\ [][/\ LeavesWait
          /\ (ia'.pc = "forward" /\ ia.pc # "forward") =>
                 (ia.pc = "wait" /\ ia.ready)
          /\ (ia'.ready /\ ~ia.ready) => Cycle("ready")]_vars

C31_Witness ==
    /\ ia.pc = "forward"
    /\ ia.ready
    /\ ia.i > 0
    /\ ia.i < interactiveTimeoutSeconds
    /\ last.op = "tap"
    /\ last.args.portForward

(***************************************************************************)
(* C32: quiescent consistency.  Between commands the three records of a    *)
(* tap agree: the Service carries the original-port annotation iff the     *)
(* Deployment it resolves to has a kubetap container iff the ConfigMap     *)
(* kubetap-target-<deployment name> exists, and the ConfigMap volume of a  *)
(* tapped Deployment names a ConfigMap that exists.  An untapped cluster   *)
(* agrees, and every tap or untap in which no API call fails takes a       *)
(* cluster that agrees to one that agrees when it returns; a command       *)
(* starts from the cluster the one before it left, and nothing else        *)
(* writes.                                                                 *)
(***************************************************************************)
HasTargetConfigMap(c, d) ==
    \E i \in 1..Len(c.cms) :
        /\ c.cms[i].name = kubetapConfigMapPrefix \o d.name
        /\ c.cms[i].namespace = d.namespace

Agree(c) ==
    /\ ResolvesOne(c)
    /\ LET d == TheDeployment(c)
       IN  /\ IsTapped(c.svc) <=> KubetapContainers(d) # <<>>
           /\ IsTapped(c.svc) <=> HasTargetConfigMap(c, d)
           /\ IsTapped(c.svc) =>
                 \A i \in 1..Len(d.volumes) :
                     d.volumes[i].kind = "ConfigMap" =>
                         \E j \in 1..Len(c.cms) :
                             /\ c.cms[j].name = d.volumes[i].ref
                             /\ c.cms[j].namespace = d.namespace

Untapped(c) ==
    /\ ResolvesOne(c)
    /\ ~IsTapped(c.svc)
    /\ KubetapContainers(TheDeployment(c)) = <<>>
    /\ ~HasTargetConfigMap(c, TheDeployment(c))

\* the cluster when the last command returned
Quiescent == IF last.op = "untapping" THEN last.steps[Len(last.steps)] ELSE Now

C32_QuiescentConsistency ==
    /\ Untapped(Now) => Agree(Now)
    /\ [][IF last'.op = "untapping"
          \* the untap of the signal listener is under way
          THEN Quiescent' = Quiescent
          ELSE IF last' # last /\ last'.op \in {"tap", "untap"}
          \* a command returned
          THEN /\ last'.pre = Quiescent
               /\ (Agree(last'.pre) /\ last'.flt = {}) => Agree(Now')
          ELSE Now' = Now]_vars

C32_Witness ==
    /\ nops = MaxOps
    /\ last.op = "tap"
    /\ last.flt = {}
    /\ last.err = Nil
    /\ Untapped(last.pre)
    /\ IsTapped(svc)
    /\ Agree(Now)
    /\ \E i \in 1..Len(TheDeployment(Now).volumes) :
          TheDeployment(Now).volumes[i].kind = "ConfigMap"

(***************************************************************************)
(* C33: whenever tap returns an error and no API call of its rollback      *)
(* fails, the cluster is left untapped: the Service has no original-port   *)
(* annotation and the port list it had before the tap, no Deployment has   *)
(* a kubetap container or a kubetap-prefixed volume, and every ConfigMap   *)
(* was there before the tap.  The rollback is untap, which takes away      *)
(* every entry named kubetap-web and rewrites every entry that targets     *)
(* 7777, so the port list of a Service that had such an entry is not the   *)
(* one it had; a tap turned down before its first write leaves whatever    *)
(* was there.                                                              *)
(***************************************************************************)
LeftUntapped(c, pre) ==
    /\ ~IsTapped(c.svc)
    /\ c.svc.ports = pre.svc.ports
    /\ \A i \in 1..Len(c.dpls) :
          /\ KubetapContainers(c.dpls[i]) = <<>>
          /\ KubetapVolumes(c.dpls[i]) = <<>>
    /\ \A j \in 1..Len(c.cms) : \E k \in 1..Len(pre.cms) : pre.cms[k] = c.cms[j]

C33_ErrorLeavesUntapped ==
    (/\ last.op = "tap"
     /\ last.err # Nil
     /\ last.flt \cap RollbackFaults = {}) => LeftUntapped(Now, last.pre)

(***************************************************************************)
(* C34: when the Deployment update of tap is retried after a conflict,     *)
(* the object every attempt hands to Update holds exactly one kubetap      *)
(* container and exactly two kubetap-prefixed volumes.  The closure of     *)
(* the loop appends to the one object that was listed before the loop, so  *)
(* the object of attempt k holds k of each.                                *)
(***************************************************************************)
C34_RetryDoesNotAccumulate ==
    (/\ last.op = "tap"
     /\ ~IsTapped(last.pre.svc)
     /\ \A i \in 1..Len(last.pre.dpls) :
           KubetapContainers(last.pre.dpls[i]) = <<>>) =>
        \A k \in 1..Len(last.sent) :
            /\ Len(KubetapContainers(last.sent[k])) = 1
            /\ Len(KubetapVolumes(last.sent[k])) = 2

(***************************************************************************)
(* C35: two Services select the same Deployment and the other one is       *)
(* tapped.  After a tap or an untap of sample-service returns, the         *)
(* ConfigMap the sidecar of the other Service reads is still there with    *)
(* the upstream port of the other Service, and the Deployment still holds  *)
(* exactly one sidecar.  The ConfigMap, the sidecar and the volumes are    *)
(* named after the Deployment alone, so a command on one Service takes     *)
(* them from the other.                                                    *)
(***************************************************************************)
PeerTapped == others # <<>> /\ IsTapped(others[1])

PeerConfigMap(c) ==
    \E j \in 1..Len(c.cms) :
        /\ c.cms[j].name = kubetapConfigMapPrefix \o TheDeployment(c).name
        /\ c.cms[j].namespace = others[1].namespace
        /\ c.cms[j].data[mitmproxyConfigFile]
               = mitmproxyBaseConfig
                   \o UpstreamDirective(FALSE,
                          MapGet(others[1].anns, annotationOriginalTargetPort))

C35_PeerTapIntact ==
    (/\ PeerTapped
     /\ last.op \in {"tap", "untap"}
     /\ PeerConfigMap(last.pre)
     /\ Len(KubetapContainers(TheDeployment(last.pre))) = 1) =>
        /\ PeerConfigMap(Now)
        /\ Len(KubetapContainers(TheDeployment(Now))) = 1

(***************************************************************************)
(* C38: the rendezvous channel s is never sent to after it was closed: on  *)
(* every path by which the interactive flow of tap returns, and so closes  *)
(* s, no goroutine is at a send on s.  The check that sees the Pod ready   *)
(* starts a goroutine that sends once more, and the loop ends without      *)
(* receiving from it: every return after that closes s under a blocked     *)
(* sender.                                                                 *)
(***************************************************************************)
C38_NoSendAfterClose == ~(ia.closed /\ ia.snd)

(***************************************************************************)
(* C37: after an interrupt the process does not end before the untap the   *)
(* signal listener started has run to its end: the process is never gone   *)
(* with that untap part way, the ConfigMap deleted or the Deployment       *)
(* untapped while the Service still targets port 7777.  Nothing makes the  *)
(* main flow wait for the listener, so a return of the main flow ends the  *)
(* process under it.                                                       *)
(***************************************************************************)
MidUntap == ia.lis = "stopped" /\ ia.u > 0

C37_NoExitMidUntap == ia.pc = "exited" => ~MidUntap

(***************************************************************************)
(* C39: the Service swap changes only what it must.  For a tap that        *)
(* succeeds, against the Service as it was: the one entry with the tapped  *)
(* port now targets 7777 and, if it had no name, is named kubetap-listen;  *)
(* one web-interface entry is appended at the end; the original-port       *)
(* annotation is added with the target port the entry had; every other     *)
(* entry, every other annotation, the name, the namespace and the          *)
(* selector are as they were.                                              *)
(***************************************************************************)
Swapped(pre, post, port) ==
    /\ Cardinality(PortEntries(pre, port)) = 1
    /\ Len(post.ports) = Len(pre.ports) + 1
    /\ post.ports[Len(post.ports)]
           = ServicePort(kubetapServicePortName, kubetapProxyWebInterfacePort,
                         FromInt(kubetapProxyWebInterfacePort))
    /\ \A i \in 1..Len(pre.ports) :
          IF pre.ports[i].port = port
          THEN /\ post.ports[i].targetPort = FromInt(kubetapProxyListenPort)
               /\ post.ports[i].port = pre.ports[i].port
               /\ post.ports[i].name
                      = IF pre.ports[i].name = "" THEN kubetapPortName
                        ELSE pre.ports[i].name
               /\ post.anns[annotationOriginalTargetPort]
                      = IntstrString(pre.ports[i].targetPort)
          ELSE post.ports[i] = pre.ports[i]
    /\ DOMAIN post.anns = DOMAIN pre.anns \cup {annotationOriginalTargetPort}
    /\ \A k \in DOMAIN pre.anns : post.anns[k] = pre.anns[k]
    /\ post.name = pre.name
    /\ post.namespace = pre.namespace
    /\ post.selector = pre.selector

Returned(k) == race.p[k].pc = "done"

Won(k) == Returned(k) /\ race.p[k].err = Nil

C36_AtMostOneSuccess == ~(\A k \in Procs : Won(k))

C36_RaceKeepsWinnersTap ==
    /\ C36_AtMostOneSuccess
    /\ ((\A k \in Procs : Returned(k)) /\ (\E k \in Procs : Won(k)))
          => /\ IsTapped(svc)
             /\ ResolvesOne(Now)
             /\ Len(KubetapContainers(TheDeployment(Now))) = 1
             /\ HasTargetConfigMap(Now, TheDeployment(Now))
====
